---- MODULE Spec2Model ----
(***************************************************************************)
(* Real-time actuator control core of rasptank2.                           *)
(*                                                                         *)
(*  - ServoCtrl (src/web/RPIservo.py): one controller instance, its        *)
(*    channel arrays, its thread (run / scMove / moveAuto / moveCert /     *)
(*    moveWiggle) and the commands other threads call on it.               *)
(*  - the drivetrain ramp (src/modules/movement.py): the shared target /   *)
(*    current vectors, the ramp worker and motorStop / Motor.              *)
(*                                                                         *)
(* Python floats are modelled as exact fixed-point numbers: bufferPos in   *)
(* hundredths of a degree (one tick moves it by speed * scDelay, and       *)
(* scDelay is a whole number of hundredths of a second), times in          *)
(* milliseconds, motor speeds in whole percent.  round() is Python 3's     *)
(* round-half-to-even.  Threads interleave between the labelled steps;     *)
(* there is no lock in ServoCtrl, so every step sees the other thread's    *)
(* latest writes.                                                          *)
(***************************************************************************)
EXTENDS Integers, Sequences, FiniteSets, TLC

\* ------------------------------------------------------------------------
\* Bounds of the model
\* ------------------------------------------------------------------------

\* channels of one controller (the source has servo_num = 8; the commands
\* of the model address channels 0 and 1, the others are bystanders)
NumServo == 2

\* commands counted per behaviour (the counter saturates here); the
\* specifications that limit the number of commands limit it to this
MaxCmds == 2

\* ------------------------------------------------------------------------
\* Program constants
\* ------------------------------------------------------------------------

ctrlRangeMax == 180
ctrlRangeMin == 0
angleRange == 180
scSteps == 30
\* scDelay = 0.09 s and scMoveTime = 0.09 s, in milliseconds
scDelay == 90
scMoveTime == 90
\* scTime = 2.0 s, in milliseconds
scTimeDefault == 2000
init_pwm == 90

Ch == 0 .. (NumServo - 1)

\* ------------------------------------------------------------------------
\* Inputs the commands are drawn from
\* ------------------------------------------------------------------------

\* speedSet of singleServo
SpeedInputs == {2, 8, 80}
\* setAutoTime arguments: 3.0 s
AutoTimes == {3000}
\* angleInput of the autoSpeed commands of SpecAuto
AutoAngles == {-8, 8}
\* angleInput (a positive delta) and speedSet of the certSpeed command of SpecCert
CertAngles == {30, 90, 100}
CertSpeeds == {1, 2, 80}
\* angleInput of the moveAngle and certSpeed commands of SpecCertAny
SmallAngles == {-8, 8}
\* PWM_input of the setPWM command of SpecCertAny
PwmInputs == {85}
\* shoulder calibrations <<base_angle, raise_angle>>
Calibrations == { <<90, 8>> }

\* ------------------------------------------------------------------------
\* State
\* ------------------------------------------------------------------------

VARIABLES
    \* ServoCtrl fields
    sc_direction, initPos, goalPos, nowPos, bufferPos, lastPos, ingGoal,
    maxPos, minPos, scSpeed, scMode, scTime, goalUpdate, wiggleID,
    wiggleDirection,
    flag,        \* the threading.Event __flag
    pwm_servo,   \* the driver: "none" until _ensure_driver has run ("norich":
                 \* only the smbus driver will work; "absent": neither will),
                 \* then "bound" (Adafruit) or "fallback" (smbus);
                 \* "broken": bound, and the chip does not answer
    \* the controller thread: position in run(), loop indices, return value
    tpc, ti, tdc, tret,
    tNewNow,     \* moveWiggle's local newNow, between its assignment (line 369)
                 \* and its use (lines 374-375)
    \* the calling thread: position inside the command it is executing
    cpc, carg,
    cmds,        \* commands issued so far
    cres,        \* how the last motion call ended: "none", "ok" (returned)
                 \* or "error" (raised)
    hwOut,       \* the position writes the last step of the controller sent
                 \* to the chip, in order, each << channel, angle >>
    hwRelax,     \* the channels the last step of the controller set to zero
                 \* output (relax)
    led,         \* _PWM_LED_CHANNEL: the channel index read from the
                 \* environment when the module is loaded, then fixed
    calib,       \* servo_calibration.py: the stored shoulder calibration
                 \* << base_angle, raise_angle >>, the snapshot last handed to
                 \* the registered observer, per updating thread the snapshot
                 \* it still has to hand over, and how the last update ended
    \* observers (no effect on the program)
    autoStop,    \* moveWiggle has taken its limit branch in the current run
    pending,     \* a command has returned and its regime has not been entered
    seenLo, seenHi, \* per channel: hull of the start position and all goals set
    stopObs,     \* stops in a row: how many have returned with no other step
                 \* of the controller in between (run), nowPos before the
                 \* first (pre), the state the first one left (snap)
    \* movement.py: module state of the drivetrain
    motor_targets, motor_currents,
    pwm_motor,   \* "none" until _ensure_driver has bound the chip ("norich":
                 \* the Adafruit driver cannot be built), then "bound";
                 \* "broken": bound, and the chip does not answer
    hwSpeed,     \* per motor: the speed last handed to motorN.throttle (percent)
    \* the ramp worker: position in _drive_worker, its locals
    wpc, wNext,
    \* the thread inside motorStop or move, and move's arguments
    mpc, marg,
    mres,        \* how the last Motor call ended: "none", "ok" or "error"
    drive_motion, \* active flag of the last drive_motion event published:
                 \* "none" before the first, then "active" or "inactive"
    epc,         \* per calling thread: the call that has passed the check of
                 \* _ensure_drive_worker and has not started its thread yet
                 \* (<< >>: none)
    wpc2,        \* a second _drive_worker thread: "off" or "run"
    fbMotor,     \* one _FallbackDCMotor: its _throttle (percent), the duty of
                 \* its two H-bridge channels on the chip, and the set_pwm
                 \* call of a throttle update that is still to be made
    estop        \* observer: motorStop(immediate=True) has returned and no
                 \* target has been set since

scFields == << sc_direction, initPos, goalPos, nowPos, bufferPos, lastPos,
               ingGoal, maxPos, minPos, scSpeed, scMode, scTime, goalUpdate,
               wiggleID, wiggleDirection, flag >>
thrVars == << tpc, ti, tdc, tret, tNewNow >>
callVars == << cpc, carg, cmds, cres >>
obsVars == << autoStop, pending, seenLo, seenHi, stopObs >>
servoVars == << scFields, pwm_servo, hwOut, hwRelax, calib, led, thrVars, callVars,
               obsVars >>
driveVars == << motor_targets, motor_currents, pwm_motor, hwSpeed, wpc, wNext,
               mpc, marg, mres, drive_motion, epc, wpc2, fbMotor, estop >>
vars == << servoVars, driveVars >>

StopNone == [run |-> 0, pre |-> << >>, snap |-> << >>]

\* ------------------------------------------------------------------------
\* Arithmetic
\* ------------------------------------------------------------------------

Abs(x) == IF x < 0 THEN -x ELSE x
Min2(a, b) == IF a < b THEN a ELSE b
Max2(a, b) == IF a > b THEN a ELSE b

\* Python 3 round(n / d) for d > 0: nearest integer, ties to the even one
RoundHalfEven(n, d) ==
    LET q == n \div d
        r == n - q * d
    IN  IF 2 * r < d THEN q
        ELSE IF 2 * r > d THEN q + 1
        ELSE IF q % 2 = 0 THEN q ELSE q + 1

\* ceil(n / d) for n >= 0, d > 0
CeilDiv(n, d) == (n + d - 1) \div d

\* pwmGenOut: int(round((ctrlRangeMax - ctrlRangeMin) / angleRange * angleInput))
pwmGenOut(angleInput) ==
    RoundHalfEven((ctrlRangeMax - ctrlRangeMin) * angleInput, angleRange)

\* bufferPos step of one tick, in hundredths:
\* pwmGenOut(speed) / (1 / scDelay), scDelay in seconds
TickStep(speed) == (pwmGenOut(speed) * scDelay) \div 10

\* int(round(bufferPos, 0)) of a value in hundredths
RoundBuf(b) == RoundHalfEven(b, 100)

\* ------------------------------------------------------------------------
\* ServoCtrl: pure parts of the methods
\* ------------------------------------------------------------------------

\* autoSpeed / certSpeed: the goal of channel c for angleInput a, clamped
NewGoal(c, a) ==
    LET g == initPos[c] + pwmGenOut(a) * sc_direction[c]
    IN  IF g > maxPos[c] THEN maxPos[c]
        ELSE IF g < minPos[c] THEN minPos[c]
        ELSE g

\* an interpolation that counts one tick too many
AutoNow_off(last, goal, k) ==
    RoundHalfEven(last * scSteps + (goal - last) * (k + 1), scSteps)

\* moveAuto: nowPos of tick k (k = i + 1) between last and goal
AutoNow(last, goal, k) ==
    RoundHalfEven(last * scSteps + (goal - last) * k, scSteps)

\* a tick that does not hold current at the goal
CertTick_noclamp(buf, now, last, goal, speed) ==
    IF last < goal THEN << buf + TickStep(speed), RoundBuf(buf + TickStep(speed)) >>
    ELSE IF last > goal THEN << buf - TickStep(speed), RoundBuf(buf - TickStep(speed)) >>
    ELSE << buf, now >>

\* moveCert, one channel: <<bufferPos, nowPos>> after the tick
CertTick(buf, now, last, goal, speed) ==
    IF last < goal THEN
        LET b == buf + TickStep(speed)
            n == RoundBuf(b)
        IN  << b, IF n > goal THEN goal ELSE n >>
    ELSE IF last > goal THEN
        LET b == buf - TickStep(speed)
            n == RoundBuf(b)
        IN  << b, IF n < goal THEN goal ELSE n >>
    ELSE << buf, now >>

\* moveWiggle: bufferPos after the += of the tick, before it is limited
WiggleRaw(buf, wdir, dir, speed) == buf + wdir * dir * TickStep(speed)

\* moveWiggle: newNow, taken from bufferPos before bufferPos is limited
WiggleNewNow(raw, lo, hi) == RoundBuf(raw)

\* moveWiggle: bufferPos limited to [minPos, maxPos]
WiggleBuf(raw, lo, hi) ==
    IF raw > hi * 100 THEN hi * 100
    ELSE IF raw < lo * 100 THEN lo * 100
    ELSE raw

\* posUpdate: the new lastPos
PosUpdate(now) == now

\* time.sleep(t) raises ValueError for t < 0; t in milliseconds times scSteps
AutoSleepArg == scTime - scMoveTime * scSteps
DelaySleepArg == scDelay - scMoveTime

\* ------------------------------------------------------------------------
\* Initial state: ServoCtrl.__init__, thread started, nothing commanded
\* ------------------------------------------------------------------------

\* _ensure_driver / _init_fallback, lines 109-153: what pwm_servo is after a
\* call that returns
EnsureDriver(p) ==
    CASE p = "none" -> "bound"
      [] p = "norich" -> "fallback"
      [] OTHER -> p

\* set_angle raises: no driver can be had (_init_fallback, lines 149-152),
\* or the driver is bound and the chip does not answer ("broken": the I2C
\* write of pca9685_driver.set_pwm, lines 105-108, raises OSError)
DriverFails(p) == p \in {"absent", "broken"}

\* relax, lines 183-205: returns at once without a driver, writes duty 0
\* with one, and raises when that write fails
RelaxFails(p) == p = "broken"

\* set_angle, line 162: the angle is held to ctrlRangeMin..ctrlRangeMax
SetAngleOut(ID, angle) == << ID, Max2(ctrlRangeMin, Min2(ctrlRangeMax, angle)) >>

\* the position writes of a step that calls set_angle for each << ID, angle >>
\* of calls, with driver p before it: none when the first call raises; the
\* call that acquires the driver runs _run_health_check first (lines
\* 207-231), which sends channel 0 to 90 degrees
\* set_angle returns before the write for the channel of the status LED
\* (lines 160-161), after _ensure_driver. The health check of the smbus
\* driver calls set_pwm(0, ...) whatever that channel is (lines 212-218);
\* the Adafruit driver holds None for it (lines 120-125), so that the write
\* of line 220 raises, is caught, and sends nothing
HwWrites(p, calls) ==
    IF calls = << >> \/ DriverFails(p) THEN << >>
    ELSE LET kept == SelectSeq(calls, LAMBDA cl : cl[1] # led)
             out == [k \in 1 .. Len(kept) |-> SetAngleOut(kept[k][1], kept[k][2])]
             health == IF p = "norich" \/ (p = "none" /\ led # 0)
                       THEN << << 0, 90 >> >> ELSE << >>
         IN  health \o out

\* _PWM_LED_CHANNEL, line 28: the default of PWM_LED_CHANNEL
PWM_LED_CHANNEL == 5

\* the threads that call into movement.py: the command handler of
\* webServer.py and the tracking thread of camera.py
Callers == {1, 2}

\* servo_calibration.py, _DEFAULT_SHOULDER: << base_angle, raise_angle >>
DEFAULT_SHOULDER == << 90, 60 >>

\* _run_health_check, lines 229-231: the step that acquires the driver ends
\* the health check with relax(0); relax skips the channel of the status LED
\* (lines 196-197)
HealthRelax ==
    IF (pwm_servo = "none" \/ pwm_servo = "norich")
         /\ (pwm_servo' = "bound" \/ pwm_servo' = "fallback")
    THEN {0} \ {led} ELSE {}

\* pause, lines 173-177, with SERVO_RELAX at its default: relax() with no
\* argument sets every channel of range(servo_num) to zero output; relax
\* returns at once while pwm_servo is None
PauseRelax ==
    IF pwm_servo' = "bound" \/ pwm_servo' = "fallback" THEN Ch \ {led} ELSE {}

InitServo ==
    /\ sc_direction = [c \in Ch |-> 1]
    /\ initPos = [c \in Ch |-> init_pwm]
    /\ goalPos = [c \in Ch |-> 90]
    /\ nowPos = [c \in Ch |-> 90]
    /\ bufferPos = [c \in Ch |-> 9000]
    /\ lastPos = [c \in Ch |-> 90]
    /\ ingGoal = [c \in Ch |-> 90]
    /\ maxPos = [c \in Ch |-> 180]
    /\ minPos = [c \in Ch |-> 0]
    /\ scSpeed = [c \in Ch |-> 0]
    /\ scMode = "auto"
    /\ scTime = scTimeDefault
    /\ goalUpdate = 0
    /\ wiggleID = 0
    /\ wiggleDirection = 1
    /\ flag = FALSE
    /\ tpc = "wait" /\ ti = 0 /\ tdc = 0 /\ tret = -1
    /\ tNewNow = 0
    /\ cpc = "idle" /\ carg = << >> /\ cmds = 0 /\ cres = "none"
    /\ hwOut = << >>
    /\ hwRelax = {}
    /\ calib = [store |-> DEFAULT_SHOULDER, seen |-> << >>,
                pend |-> [t \in Callers |-> << >>], res |-> "none"]
    /\ autoStop = FALSE /\ pending = FALSE
    /\ seenLo = [c \in Ch |-> 90] /\ seenHi = [c \in Ch |-> 90]
    /\ stopObs = StopNone

\* ------------------------------------------------------------------------
\* The controller thread: run() -> scMove() -> moveAuto / moveCert /
\* moveWiggle.  Every step of the thread ends a "stops in a row" episode.
\* ------------------------------------------------------------------------

\* run: __flag.wait() returns, scMove dispatches on scMode
Run_wait ==
    /\ tpc = "wait" /\ flag
    /\ scMode \in {"auto", "certain", "wiggle"}
    /\ tpc' = CASE scMode = "auto" -> "auto_enter"
                [] scMode = "certain" -> "cert_enter"
                [] scMode = "wiggle" -> "wig_tick"
    /\ pending' = FALSE
    /\ stopObs' = StopNone
    /\ UNCHANGED << scFields, ti, tdc, tret, callVars, autoStop,
                    seenLo, seenHi >>
    /\ UNCHANGED pwm_servo
    /\ hwOut' = << >>
    /\ UNCHANGED tNewNow
    /\ hwRelax' = HealthRelax
    /\ UNCHANGED << calib, led >>
    /\ UNCHANGED driveVars

\* run: __flag.wait() returns while scMode is 'init', scMove calls moveInit
\* (lines 233-241): every channel to its init position, pause; an exception
\* of the first set_angle ends the thread
MoveInit ==
    /\ tpc = "wait" /\ flag
    /\ scMode = "init"
    /\ pwm_servo' = EnsureDriver(pwm_servo)
    /\ hwOut' = HwWrites(pwm_servo, [k \in 1 .. NumServo |-> << k - 1, initPos[k - 1] >>])
    /\ IF DriverFails(pwm_servo)
       THEN /\ tpc' = "dead"
            /\ UNCHANGED << lastPos, nowPos, bufferPos, goalPos, flag >>
       ELSE /\ lastPos' = initPos
            /\ nowPos' = initPos
            /\ bufferPos' = [c \in Ch |-> initPos[c] * 100]
            /\ goalPos' = initPos
            /\ flag' = FALSE
            /\ UNCHANGED tpc
    /\ pending' = FALSE
    /\ stopObs' = StopNone
    /\ UNCHANGED << sc_direction, initPos, ingGoal, maxPos, minPos, scSpeed,
                    scMode, scTime, goalUpdate, wiggleID, wiggleDirection,
                    ti, tdc, tret, callVars, autoStop, seenLo, seenHi >>
    /\ UNCHANGED tNewNow
    /\ hwRelax' = HealthRelax \cup PauseRelax
    /\ UNCHANGED << calib, led >>
    /\ UNCHANGED driveVars

\* moveAuto, lines 280-281: the goal snapshot
MoveAuto_enter ==
    /\ tpc = "auto_enter"
    /\ ingGoal' = goalPos
    /\ ti' = 0 /\ tdc' = 0
    /\ tpc' = "auto_check"
    /\ stopObs' = StopNone
    /\ UNCHANGED << sc_direction, initPos, goalPos, nowPos, bufferPos, lastPos,
                    maxPos, minPos, scSpeed, scMode, scTime, goalUpdate,
                    wiggleID, wiggleDirection, flag, tret, callVars,
                    autoStop, pending, seenLo, seenHi >>
    /\ UNCHANGED pwm_servo
    /\ hwOut' = << >>
    /\ UNCHANGED tNewNow
    /\ hwRelax' = HealthRelax
    /\ UNCHANGED << calib, led >>
    /\ UNCHANGED driveVars

\* moveAuto, line 285: if not self.goalUpdate
MoveAuto_check ==
    /\ tpc = "auto_check"
    /\ tpc' = IF goalUpdate = 0 THEN "auto_calc" ELSE "auto_cmp"
    /\ stopObs' = StopNone
    /\ UNCHANGED << scFields, ti, tdc, tret, callVars, autoStop, pending, seenLo, seenHi >>
    /\ UNCHANGED pwm_servo
    /\ hwOut' = << >>
    /\ UNCHANGED tNewNow
    /\ hwRelax' = HealthRelax
    /\ UNCHANGED << calib, led >>
    /\ UNCHANGED driveVars

\* moveAuto, lines 286-287: interpolate channel dc and write it out
MoveAuto_calc ==
    /\ tpc = "auto_calc"
    /\ nowPos' = [nowPos EXCEPT ![tdc] = AutoNow(lastPos[tdc], goalPos[tdc], ti + 1)]
    /\ pwm_servo' = EnsureDriver(pwm_servo)
    /\ hwOut' = HwWrites(pwm_servo,
                         << << tdc, AutoNow(lastPos[tdc], goalPos[tdc], ti + 1) >> >>)
    /\ tpc' = IF DriverFails(pwm_servo) THEN "dead" ELSE "auto_cmp"
    /\ pending' = IF scMode = "auto" THEN FALSE ELSE pending
    /\ stopObs' = StopNone
    /\ UNCHANGED << sc_direction, initPos, goalPos, bufferPos, lastPos, ingGoal,
                    maxPos, minPos, scSpeed, scMode, scTime, goalUpdate,
                    wiggleID, wiggleDirection, flag, ti, tdc, tret, callVars,
                    autoStop, seenLo, seenHi >>
    /\ UNCHANGED tNewNow
    /\ hwRelax' = HealthRelax
    /\ UNCHANGED << calib, led >>
    /\ UNCHANGED driveVars

\* moveAuto, lines 289-292: goal changed -> posUpdate, return 1
MoveAuto_cmp ==
    /\ tpc = "auto_cmp"
    /\ IF ingGoal # goalPos
       THEN /\ lastPos' = PosUpdate(nowPos)
            /\ goalUpdate' = 0
            /\ tret' = 1
            /\ tpc' = "wait"
            /\ UNCHANGED << tdc >>
       ELSE /\ tdc' = tdc + 1
            /\ tpc' = IF tdc + 1 = NumServo THEN "auto_sleep" ELSE "auto_check"
            /\ UNCHANGED << lastPos, goalUpdate, tret >>
    /\ stopObs' = StopNone
    /\ UNCHANGED << sc_direction, initPos, goalPos, nowPos, bufferPos, ingGoal,
                    maxPos, minPos, scSpeed, scMode, scTime, wiggleID,
                    wiggleDirection, flag, ti, callVars, autoStop, pending, seenLo, seenHi >>
    /\ UNCHANGED pwm_servo
    /\ hwOut' = << >>
    /\ UNCHANGED tNewNow
    /\ hwRelax' = HealthRelax
    /\ UNCHANGED << calib, led >>
    /\ UNCHANGED driveVars

\* moveAuto, line 293: time.sleep(scTime / scSteps - scMoveTime); a negative
\* argument raises ValueError, which run() does not catch: the thread ends
MoveAuto_sleep ==
    /\ tpc = "auto_sleep"
    /\ IF AutoSleepArg < 0
       THEN /\ tpc' = "dead"
            /\ UNCHANGED << ti, tdc >>
       ELSE /\ ti' = ti + 1
            /\ tdc' = 0
            /\ tpc' = IF ti + 1 = scSteps THEN "auto_fin" ELSE "auto_check"
    /\ stopObs' = StopNone
    /\ UNCHANGED << scFields, tret, callVars, autoStop, pending, seenLo, seenHi >>
    /\ UNCHANGED pwm_servo
    /\ hwOut' = << >>
    /\ UNCHANGED tNewNow
    /\ hwRelax' = HealthRelax
    /\ UNCHANGED << calib, led >>
    /\ UNCHANGED driveVars

\* moveAuto, line 295: posUpdate
MoveAuto_fin ==
    /\ tpc = "auto_fin"
    /\ lastPos' = PosUpdate(nowPos)
    /\ goalUpdate' = 0
    /\ tpc' = "auto_pause"
    /\ stopObs' = StopNone
    /\ UNCHANGED << sc_direction, initPos, goalPos, nowPos, bufferPos, ingGoal,
                    maxPos, minPos, scSpeed, scMode, scTime, wiggleID,
                    wiggleDirection, flag, ti, tdc, tret, callVars, autoStop,
                    pending, seenLo, seenHi >>
    /\ UNCHANGED pwm_servo
    /\ hwOut' = << >>
    /\ UNCHANGED tNewNow
    /\ hwRelax' = HealthRelax
    /\ UNCHANGED << calib, led >>
    /\ UNCHANGED driveVars

\* moveAuto, lines 296-297: pause, return 0
MoveAuto_pause ==
    /\ tpc = "auto_pause"
    /\ flag' = FALSE
    /\ tret' = 0
    /\ tpc' = "wait"
    /\ stopObs' = StopNone
    /\ UNCHANGED << sc_direction, initPos, goalPos, nowPos, bufferPos, lastPos,
                    ingGoal, maxPos, minPos, scSpeed, scMode, scTime,
                    goalUpdate, wiggleID, wiggleDirection, ti, tdc, callVars,
                    autoStop, pending, seenLo, seenHi >>
    /\ UNCHANGED pwm_servo
    /\ hwOut' = << >>
    /\ UNCHANGED tNewNow
    /\ hwRelax' = HealthRelax \cup PauseRelax
    /\ UNCHANGED << calib, led >>
    /\ UNCHANGED driveVars

\* moveCert, lines 300-302: goal snapshot, bufferPos restarts from lastPos
MoveCert_enter ==
    /\ tpc = "cert_enter"
    /\ ingGoal' = goalPos
    /\ bufferPos' = [c \in Ch |-> lastPos[c] * 100]
    /\ tpc' = "cert_while"
    /\ stopObs' = StopNone
    /\ UNCHANGED << sc_direction, initPos, goalPos, nowPos, lastPos, maxPos,
                    minPos, scSpeed, scMode, scTime, goalUpdate, wiggleID,
                    wiggleDirection, flag, ti, tdc, tret, callVars, autoStop,
                    pending, seenLo, seenHi >>
    /\ UNCHANGED pwm_servo
    /\ hwOut' = << >>
    /\ UNCHANGED tNewNow
    /\ hwRelax' = HealthRelax
    /\ UNCHANGED << calib, led >>
    /\ UNCHANGED driveVars

\* moveCert, line 304: while self.nowPos != self.goalPos
MoveCert_while ==
    /\ tpc = "cert_while"
    /\ IF nowPos # goalPos
       THEN tdc' = 0 /\ tpc' = "cert_body"
       ELSE tdc' = tdc /\ tpc' = "cert_pause"
    /\ stopObs' = StopNone
    /\ UNCHANGED << scFields, ti, tret, callVars, autoStop, pending,
                    seenLo, seenHi >>
    /\ UNCHANGED pwm_servo
    /\ hwOut' = << >>
    /\ UNCHANGED tNewNow
    /\ hwRelax' = HealthRelax
    /\ UNCHANGED << calib, led >>
    /\ UNCHANGED driveVars

\* moveCert, lines 305-324: one channel of the tick
MoveCert_body ==
    /\ tpc = "cert_body"
    /\ LET r == CertTick(bufferPos[tdc], nowPos[tdc], lastPos[tdc],
                         goalPos[tdc], scSpeed[tdc])
           now1 == [nowPos EXCEPT ![tdc] = r[2]]
           set_angle == goalUpdate = 0
       IN  /\ bufferPos' = [bufferPos EXCEPT ![tdc] = r[1]]
           /\ nowPos' = now1
           /\ pwm_servo' = IF set_angle THEN EnsureDriver(pwm_servo)
                           ELSE pwm_servo
           /\ hwOut' = IF set_angle
                       THEN HwWrites(pwm_servo, << << tdc, r[2] >> >>)
                       ELSE << >>
           /\ IF set_angle /\ DriverFails(pwm_servo)
              THEN /\ tpc' = "dead"
                   /\ UNCHANGED << lastPos, goalUpdate, tret, tdc >>
              ELSE IF ingGoal # goalPos
              THEN /\ lastPos' = PosUpdate(now1)
                   /\ goalUpdate' = 0
                   /\ tret' = 1
                   /\ tpc' = "wait"
                   /\ UNCHANGED tdc
              ELSE /\ tdc' = tdc + 1
                   /\ tpc' = IF tdc + 1 = NumServo THEN "cert_end" ELSE "cert_body"
                   /\ UNCHANGED << lastPos, goalUpdate, tret >>
    /\ pending' = IF scMode = "certain" THEN FALSE ELSE pending
    /\ stopObs' = StopNone
    /\ UNCHANGED << sc_direction, initPos, goalPos, ingGoal, maxPos, minPos,
                    scSpeed, scMode, scTime, wiggleID, wiggleDirection, flag,
                    ti, callVars, autoStop, seenLo, seenHi >>
    /\ UNCHANGED tNewNow
    /\ hwRelax' = HealthRelax
    /\ UNCHANGED << calib, led >>
    /\ UNCHANGED driveVars

\* moveCert, lines 325-326: posUpdate, time.sleep(scDelay - scMoveTime)
MoveCert_end ==
    /\ tpc = "cert_end"
    /\ lastPos' = PosUpdate(nowPos)
    /\ goalUpdate' = 0
    /\ tpc' = IF DelaySleepArg < 0 THEN "dead" ELSE "cert_while"
    /\ stopObs' = StopNone
    /\ UNCHANGED << sc_direction, initPos, goalPos, nowPos, bufferPos, ingGoal,
                    maxPos, minPos, scSpeed, scMode, scTime, wiggleID,
                    wiggleDirection, flag, ti, tdc, tret, callVars, autoStop,
                    pending, seenLo, seenHi >>
    /\ UNCHANGED pwm_servo
    /\ hwOut' = << >>
    /\ UNCHANGED tNewNow
    /\ hwRelax' = HealthRelax
    /\ UNCHANGED << calib, led >>
    /\ UNCHANGED driveVars

\* moveCert, lines 327-329: the loop's else branch: pause, return 0
MoveCert_pause ==
    /\ tpc = "cert_pause"
    /\ flag' = FALSE
    /\ tret' = 0
    /\ tpc' = "wait"
    /\ stopObs' = StopNone
    /\ UNCHANGED << sc_direction, initPos, goalPos, nowPos, bufferPos, lastPos,
                    ingGoal, maxPos, minPos, scSpeed, scMode, scTime,
                    goalUpdate, wiggleID, wiggleDirection, ti, tdc, callVars,
                    autoStop, pending, seenLo, seenHi >>
    /\ UNCHANGED pwm_servo
    /\ hwOut' = << >>
    /\ UNCHANGED tNewNow
    /\ hwRelax' = HealthRelax \cup PauseRelax
    /\ UNCHANGED << calib, led >>
    /\ UNCHANGED driveVars

\* moveWiggle, lines 368-377 (and the sleep of line 380 when it goes on)
MoveWiggle_tick ==
    /\ tpc = "wig_tick"
    /\ LET w == wiggleID
           raw == WiggleRaw(bufferPos[w], wiggleDirection, sc_direction[w], scSpeed[w])
           newNow == WiggleNewNow(raw, minPos[w], maxPos[w])
           buf == WiggleBuf(raw, minPos[w], maxPos[w])
           inside == buf < maxPos[w] * 100 /\ buf > minPos[w] * 100
       IN  /\ bufferPos' = [bufferPos EXCEPT ![w] = buf]
           /\ nowPos' = [nowPos EXCEPT ![w] = newNow]
           /\ lastPos' = [lastPos EXCEPT ![w] = newNow]
           /\ pwm_servo' = IF inside THEN EnsureDriver(pwm_servo) ELSE pwm_servo
           /\ hwOut' = IF inside THEN HwWrites(pwm_servo, << << w, newNow >> >>)
                       ELSE << >>
           /\ tpc' = IF ~inside THEN "wig_stop"
                     ELSE IF DriverFails(pwm_servo) \/ DelaySleepArg < 0
                          THEN "dead" ELSE "wait"
           /\ autoStop' = IF inside THEN autoStop ELSE TRUE
    /\ pending' = IF scMode = "wiggle" THEN FALSE ELSE pending
    /\ stopObs' = StopNone
    /\ UNCHANGED << sc_direction, initPos, goalPos, ingGoal, maxPos, minPos,
                    scSpeed, scMode, scTime, goalUpdate, wiggleID,
                    wiggleDirection, flag, ti, tdc, tret, callVars,
                    seenLo, seenHi >>
    /\ UNCHANGED tNewNow
    /\ hwRelax' = HealthRelax
    /\ UNCHANGED << calib, led >>
    /\ UNCHANGED driveVars

\* moveWiggle, line 379: stopWiggle() called by the thread at a limit
\* (pause, posUpdate), then the sleep of line 380
MoveWiggle_stop ==
    /\ tpc = "wig_stop"
    /\ flag' = FALSE
    /\ IF RelaxFails(pwm_servo)
       THEN /\ tpc' = "dead"
            /\ UNCHANGED << lastPos, goalUpdate >>
       ELSE /\ lastPos' = PosUpdate(nowPos)
            /\ goalUpdate' = 0
            /\ tpc' = IF DelaySleepArg < 0 THEN "dead" ELSE "wait"
    /\ stopObs' = StopNone
    /\ UNCHANGED << sc_direction, initPos, goalPos, nowPos, bufferPos, ingGoal,
                    maxPos, minPos, scSpeed, scMode, scTime, wiggleID,
                    wiggleDirection, ti, tdc, tret, callVars, autoStop,
                    pending, seenLo, seenHi >>
    /\ UNCHANGED pwm_servo
    /\ hwOut' = << >>
    /\ UNCHANGED tNewNow
    /\ hwRelax' = HealthRelax \cup PauseRelax
    /\ UNCHANGED << calib, led >>
    /\ UNCHANGED driveVars

\* ------------------------------------------------------------------------
\* Commands, called from another thread.  A command that brackets its
\* writes with goalUpdate = 1 ... goalUpdate = 0 is two steps, so that the
\* controller thread can run in between.
\* ------------------------------------------------------------------------

\* the state a stop is compared on: pause flag, goal, current, last, accumulator
StopState == << flag, goalPos, nowPos, lastPos, bufferPos >>

\* a stop that snaps current to the goal
StopNow_snap(now, goal) == goal

\* stopWiggle does not assign nowPos: its value after the call
StopNow(now, goal) == now

\* autoSpeed(ID=[c], angleInput=[a]), lines 341-349
AutoSpeed_begin(c, a) ==
    /\ cpc = "idle"
    /\ scMode' = "auto"
    /\ goalUpdate' = 1
    /\ goalPos' = [goalPos EXCEPT ![c] = NewGoal(c, a)]
    /\ seenLo' = [seenLo EXCEPT ![c] = Min2(@, NewGoal(c, a))]
    /\ seenHi' = [seenHi EXCEPT ![c] = Max2(@, NewGoal(c, a))]
    /\ cpc' = "auto_end" /\ cmds' = Min2(cmds + 1, MaxCmds) /\ carg' = << >>
    /\ pending' = FALSE
    /\ stopObs' = StopNone
    /\ UNCHANGED << sc_direction, initPos, nowPos, bufferPos, lastPos, ingGoal,
                    maxPos, minPos, scSpeed, scTime, wiggleID, wiggleDirection,
                    flag, thrVars, autoStop >>
    /\ UNCHANGED pwm_servo
    /\ hwOut' = << >>
    /\ UNCHANGED cres
    /\ hwRelax' = HealthRelax
    /\ UNCHANGED << calib, led >>
    /\ UNCHANGED driveVars

\* autoSpeed, lines 350-351: goalUpdate = 0, resume
AutoSpeed_end ==
    /\ cpc = "auto_end"
    /\ goalUpdate' = 0
    /\ flag' = TRUE
    /\ cpc' = "idle"
    /\ pending' = TRUE
    /\ UNCHANGED << sc_direction, initPos, goalPos, nowPos, bufferPos, lastPos,
                    ingGoal, maxPos, minPos, scSpeed, scMode, scTime, wiggleID,
                    wiggleDirection, thrVars, carg, cmds, autoStop,
                    seenLo, seenHi, stopObs >>
    /\ UNCHANGED pwm_servo
    /\ hwOut' = << >>
    /\ cres' = "ok"
    /\ hwRelax' = HealthRelax
    /\ UNCHANGED << calib, led >>
    /\ UNCHANGED driveVars

\* certSpeed(ID=[c], angleInput=[a], speedSet=[s]), lines 354-362
CertSpeed_begin(c, a, s) ==
    /\ cpc = "idle"
    /\ scMode' = "certain"
    /\ goalUpdate' = 1
    /\ goalPos' = [goalPos EXCEPT ![c] = NewGoal(c, a)]
    /\ seenLo' = [seenLo EXCEPT ![c] = Min2(@, NewGoal(c, a))]
    /\ seenHi' = [seenHi EXCEPT ![c] = Max2(@, NewGoal(c, a))]
    /\ cpc' = "cert_end" /\ cmds' = Min2(cmds + 1, MaxCmds) /\ carg' = << c, s, a >>
    /\ pending' = FALSE
    /\ stopObs' = StopNone
    /\ UNCHANGED << sc_direction, initPos, nowPos, bufferPos, lastPos, ingGoal,
                    maxPos, minPos, scSpeed, scTime, wiggleID, wiggleDirection,
                    flag, thrVars, autoStop >>
    /\ UNCHANGED pwm_servo
    /\ hwOut' = << >>
    /\ UNCHANGED cres
    /\ hwRelax' = HealthRelax
    /\ UNCHANGED << calib, led >>
    /\ UNCHANGED driveVars

\* certSpeed, lines 363-365: speedUpdate, goalUpdate = 0, resume
CertSpeed_end ==
    /\ cpc = "cert_end"
    /\ scSpeed' = [scSpeed EXCEPT ![carg[1]] = carg[2]]
    /\ goalUpdate' = 0
    /\ flag' = TRUE
    /\ cpc' = "idle" /\ carg' = << >>
    /\ pending' = TRUE
    /\ UNCHANGED << sc_direction, initPos, goalPos, nowPos, bufferPos, lastPos,
                    ingGoal, maxPos, minPos, scMode, scTime, wiggleID,
                    wiggleDirection, thrVars, cmds, autoStop, seenLo,
                    seenHi, stopObs >>
    /\ UNCHANGED pwm_servo
    /\ hwOut' = << >>
    /\ cres' = "ok"
    /\ hwRelax' = HealthRelax
    /\ UNCHANGED << calib, led >>
    /\ UNCHANGED driveVars

\* singleServo(c, d, s), lines 389-393 up to posUpdate's goalUpdate = 1
SingleServo_begin(c, d, s) ==
    /\ cpc = "idle"
    /\ wiggleID' = c
    /\ wiggleDirection' = d
    /\ scSpeed' = [scSpeed EXCEPT ![c] = s]
    /\ scMode' = "wiggle"
    /\ goalUpdate' = 1
    /\ cpc' = "single_end" /\ cmds' = Min2(cmds + 1, MaxCmds) /\ carg' = << >>
    /\ autoStop' = FALSE
    /\ pending' = FALSE
    /\ stopObs' = StopNone
    /\ UNCHANGED << sc_direction, initPos, goalPos, nowPos, bufferPos, lastPos,
                    ingGoal, maxPos, minPos, scTime, flag, thrVars,
                    seenLo, seenHi >>
    /\ UNCHANGED pwm_servo
    /\ hwOut' = << >>
    /\ UNCHANGED cres
    /\ hwRelax' = HealthRelax
    /\ UNCHANGED << calib, led >>
    /\ UNCHANGED driveVars

\* singleServo, lines 393-394: the rest of posUpdate, resume
SingleServo_end ==
    /\ cpc = "single_end"
    /\ lastPos' = PosUpdate(nowPos)
    /\ goalUpdate' = 0
    /\ flag' = TRUE
    /\ cpc' = "idle"
    /\ pending' = TRUE
    /\ UNCHANGED << sc_direction, initPos, goalPos, nowPos, bufferPos, ingGoal,
                    maxPos, minPos, scSpeed, scMode, scTime, wiggleID,
                    wiggleDirection, thrVars, carg, cmds, autoStop,
                    seenLo, seenHi, stopObs >>
    /\ UNCHANGED pwm_servo
    /\ hwOut' = << >>
    /\ cres' = "ok"
    /\ hwRelax' = HealthRelax
    /\ UNCHANGED << calib, led >>
    /\ UNCHANGED driveVars

\* stopWiggle called by another thread, lines 383-384: pause, then
\* posUpdate's goalUpdate = 1
StopWiggle_begin ==
    /\ cpc = "idle"
    /\ flag' = FALSE
    /\ goalUpdate' = 1
    /\ nowPos' = StopNow(nowPos, goalPos)
    /\ cpc' = "stop_end" /\ cmds' = Min2(cmds + 1, MaxCmds) /\ carg' = << >>
    /\ pending' = FALSE
    /\ stopObs' = IF stopObs.run = 0 THEN [StopNone EXCEPT !.pre = nowPos]
                  ELSE stopObs
    /\ UNCHANGED << sc_direction, initPos, goalPos, bufferPos, lastPos, ingGoal,
                    maxPos, minPos, scSpeed, scMode, scTime, wiggleID,
                    wiggleDirection, thrVars, autoStop, seenLo, seenHi >>
    /\ UNCHANGED pwm_servo
    /\ hwOut' = << >>
    /\ UNCHANGED cres
    /\ hwRelax' = HealthRelax \cup PauseRelax
    /\ UNCHANGED << calib, led >>
    /\ UNCHANGED driveVars

\* stopWiggle, lines 384-386: the rest of posUpdate (and the release)
StopWiggle_end ==
    /\ cpc = "stop_end"
    /\ lastPos' = PosUpdate(nowPos)
    /\ goalUpdate' = 0
    /\ cpc' = "idle"
    /\ stopObs' = IF stopObs.pre = << >> THEN StopNone
                  ELSE IF stopObs.run = 0
                  THEN [stopObs EXCEPT !.run = 1,
                          !.snap = << flag, goalPos, nowPos, PosUpdate(nowPos), bufferPos >>]
                  ELSE [stopObs EXCEPT !.run = 2]
    /\ UNCHANGED << sc_direction, initPos, goalPos, nowPos, bufferPos, ingGoal,
                    maxPos, minPos, scSpeed, scMode, scTime, wiggleID,
                    wiggleDirection, flag, thrVars, carg, cmds, autoStop,
                    pending, seenLo, seenHi >>
    /\ UNCHANGED pwm_servo
    /\ hwOut' = << >>
    /\ UNCHANGED cres
    /\ hwRelax' = HealthRelax
    /\ UNCHANGED << calib, led >>
    /\ UNCHANGED driveVars

\* moveAngle(c, a), lines 397-403
MoveAngle(c, a) ==
    /\ cpc = "idle"
    /\ LET n == initPos[c] + sc_direction[c] * pwmGenOut(a)
           v == IF n > maxPos[c] THEN maxPos[c]
                ELSE IF n < minPos[c] THEN minPos[c] ELSE n
       IN  /\ nowPos' = [nowPos EXCEPT ![c] = v]
           /\ lastPos' = [lastPos EXCEPT ![c] = v]
           /\ hwOut' = HwWrites(pwm_servo, << << c, v >> >>)
    /\ pwm_servo' = EnsureDriver(pwm_servo)
    /\ cres' = IF DriverFails(pwm_servo) THEN "error" ELSE "ok"
    /\ cmds' = Min2(cmds + 1, MaxCmds)
    /\ stopObs' = StopNone
    /\ UNCHANGED << sc_direction, initPos, goalPos, bufferPos, ingGoal, maxPos,
                    minPos, scSpeed, scMode, scTime, goalUpdate, wiggleID,
                    wiggleDirection, flag, thrVars, cpc, carg, autoStop,
                    pending, seenLo, seenHi >>
    /\ hwRelax' = HealthRelax
    /\ UNCHANGED << calib, led >>
    /\ UNCHANGED driveVars

\* setPWM(c, v), lines 416-425
SetPWM(c, v) ==
    /\ cpc = "idle"
    /\ c # led
    /\ lastPos' = [lastPos EXCEPT ![c] = v]
    /\ nowPos' = [nowPos EXCEPT ![c] = v]
    /\ bufferPos' = [bufferPos EXCEPT ![c] = v * 100]
    /\ goalPos' = [goalPos EXCEPT ![c] = v]
    /\ pwm_servo' = EnsureDriver(pwm_servo)
    /\ hwOut' = HwWrites(pwm_servo, << << c, v >> >>)
    /\ IF DriverFails(pwm_servo)
       THEN cres' = "error" /\ UNCHANGED << flag, pending >>
       ELSE cres' = "ok" /\ flag' = FALSE /\ pending' = FALSE
    /\ cmds' = Min2(cmds + 1, MaxCmds)
    /\ stopObs' = StopNone
    /\ UNCHANGED << sc_direction, initPos, ingGoal, maxPos, minPos, scSpeed,
                    scMode, scTime, goalUpdate, wiggleID, wiggleDirection,
                    thrVars, cpc, carg, autoStop, seenLo, seenHi >>
    /\ hwRelax' = HealthRelax \cup PauseRelax
    /\ UNCHANGED << calib, led >>
    /\ UNCHANGED driveVars

\* setPWM(c, v) for the channel of the status LED, lines 416-418: returns
\* before it has changed anything
SetPWM_led(c, v) ==
    /\ cpc = "idle"
    /\ c = led
    /\ cres' = "ok"
    /\ cmds' = Min2(cmds + 1, MaxCmds)
    /\ hwOut' = << >>
    /\ hwRelax' = {}
    /\ stopObs' = StopNone
    /\ UNCHANGED << scFields, pwm_servo, calib, led, thrVars, cpc, carg, autoStop,
                    pending, seenLo, seenHi >>
    /\ UNCHANGED driveVars

\* a moveServoInit that leaves the accumulator bufferPos as it was
MoveServoInit_nobuf(c) ==
    /\ cpc = "idle"
    /\ scMode' = "init"
    /\ pwm_servo' = EnsureDriver(pwm_servo)
    /\ hwOut' = HwWrites(pwm_servo, << << c, initPos[c] >> >>)
    /\ cres' = "ok"
    /\ lastPos' = [lastPos EXCEPT ![c] = initPos[c]]
    /\ nowPos' = [nowPos EXCEPT ![c] = initPos[c]]
    /\ goalPos' = [goalPos EXCEPT ![c] = initPos[c]]
    /\ flag' = FALSE
    /\ pending' = FALSE
    /\ cmds' = Min2(cmds + 1, MaxCmds)
    /\ stopObs' = StopNone
    /\ UNCHANGED << sc_direction, initPos, ingGoal, maxPos, minPos, scSpeed,
                    scTime, goalUpdate, wiggleID, wiggleDirection, bufferPos,
                    thrVars, cpc, carg, autoStop, seenLo, seenHi >>
    /\ hwRelax' = HealthRelax \cup PauseRelax
    /\ UNCHANGED << calib, led >>
    /\ UNCHANGED driveVars

\* moveInit() called by a client (webServer.py line 120), lines 233-241:
\* scMode, every channel written and set to its init position, pause
MoveInit_call ==
    /\ cpc = "idle"
    /\ scMode' = "init"
    /\ pwm_servo' = EnsureDriver(pwm_servo)
    /\ hwOut' = HwWrites(pwm_servo, [k \in 1 .. NumServo |-> << k - 1, initPos[k - 1] >>])
    /\ IF DriverFails(pwm_servo)
       THEN /\ cres' = "error"
            /\ UNCHANGED << lastPos, nowPos, bufferPos, goalPos, flag, pending >>
       ELSE /\ cres' = "ok"
            /\ lastPos' = initPos
            /\ nowPos' = initPos
            /\ bufferPos' = [c \in Ch |-> initPos[c] * 100]
            /\ goalPos' = initPos
            /\ flag' = FALSE
            /\ pending' = FALSE
    /\ cmds' = Min2(cmds + 1, MaxCmds)
    /\ stopObs' = StopNone
    /\ UNCHANGED << sc_direction, initPos, ingGoal, maxPos, minPos, scSpeed,
                    scTime, goalUpdate, wiggleID, wiggleDirection,
                    thrVars, cpc, carg, autoStop, seenLo, seenHi >>
    /\ hwRelax' = HealthRelax \cup PauseRelax
    /\ UNCHANGED << calib, led >>
    /\ UNCHANGED driveVars

\* moveServoInit(ID=[c]), lines 251-259: scMode, then set_angle before the
\* positions are stored; an exception of set_angle ends the call there
MoveServoInit(c) ==
    /\ cpc = "idle"
    /\ scMode' = "init"
    /\ pwm_servo' = EnsureDriver(pwm_servo)
    /\ hwOut' = HwWrites(pwm_servo, << << c, initPos[c] >> >>)
    /\ IF DriverFails(pwm_servo)
       THEN /\ cres' = "error"
            /\ UNCHANGED << lastPos, nowPos, bufferPos, goalPos, flag, pending >>
       ELSE /\ cres' = "ok"
            /\ lastPos' = [lastPos EXCEPT ![c] = initPos[c]]
            /\ nowPos' = [nowPos EXCEPT ![c] = initPos[c]]
            /\ bufferPos' = [bufferPos EXCEPT ![c] = initPos[c] * 100]
            /\ goalPos' = [goalPos EXCEPT ![c] = initPos[c]]
            /\ flag' = FALSE
            /\ pending' = FALSE
    /\ cmds' = Min2(cmds + 1, MaxCmds)
    /\ stopObs' = StopNone
    /\ UNCHANGED << sc_direction, initPos, ingGoal, maxPos, minPos, scSpeed,
                    scTime, goalUpdate, wiggleID, wiggleDirection,
                    thrVars, cpc, carg, autoStop, seenLo, seenHi >>
    /\ hwRelax' = HealthRelax \cup PauseRelax
    /\ UNCHANGED << calib, led >>
    /\ UNCHANGED driveVars

\* ------------------------------------------------------------------------
\* Configuration, before the first command
\* ------------------------------------------------------------------------

Configuring == cmds = 0 /\ cpc = "idle"

\* set_direction(c, d), lines 270-273
SetDirection(c, d) ==
    /\ Configuring
    /\ sc_direction' = [sc_direction EXCEPT ![c] = IF d >= 0 THEN 1 ELSE -1]
    /\ UNCHANGED << initPos, goalPos, nowPos, bufferPos, lastPos, ingGoal,
                    maxPos, minPos, scSpeed, scMode, scTime, goalUpdate,
                    wiggleID, wiggleDirection, flag, thrVars, callVars, obsVars >>
    /\ UNCHANGED pwm_servo
    /\ hwOut' = << >>
    /\ hwRelax' = HealthRelax
    /\ UNCHANGED << calib, led >>
    /\ UNCHANGED driveVars

\* setAutoTime(t), lines 334-335
SetAutoTime(t) ==
    /\ Configuring
    /\ scTime' = t
    /\ UNCHANGED << sc_direction, initPos, goalPos, nowPos, bufferPos, lastPos,
                    ingGoal, maxPos, minPos, scSpeed, scMode, goalUpdate,
                    wiggleID, wiggleDirection, flag, thrVars, callVars, obsVars >>
    /\ UNCHANGED pwm_servo
    /\ hwOut' = << >>
    /\ hwRelax' = HealthRelax
    /\ UNCHANGED << calib, led >>
    /\ UNCHANGED driveVars

\* initConfig, line 244: the test a new init position must pass
InitAccepted(initInput, lo, hi) == initInput > lo /\ initInput < hi

\* an initConfig that holds a rejected value to the nearer limit and stores
\* and writes that
InitConfig_clamp(c, initInput) ==
    /\ cpc = "idle"
    /\ LET v == Max2(minPos[c], Min2(maxPos[c], initInput))
       IN  /\ initPos' = [initPos EXCEPT ![c] = v]
           /\ hwOut' = HwWrites(pwm_servo, << << c, v >> >>)
    /\ pwm_servo' = EnsureDriver(pwm_servo)
    /\ cres' = "ok"
    /\ UNCHANGED << sc_direction, goalPos, nowPos, bufferPos, lastPos, ingGoal,
                    maxPos, minPos, scSpeed, scMode, scTime, goalUpdate,
                    wiggleID, wiggleDirection, flag, thrVars, cpc, carg, cmds,
                    obsVars >>
    /\ hwRelax' = HealthRelax
    /\ UNCHANGED << calib, led >>
    /\ UNCHANGED driveVars

\* initConfig(ID=c, initInput, moveTo=1), lines 243-249: an accepted value
\* is stored and the servo moved to it; a rejected one is only reported
InitConfig(c, initInput) ==
    /\ cpc = "idle"
    /\ IF InitAccepted(initInput, minPos[c], maxPos[c])
       THEN /\ initPos' = [initPos EXCEPT ![c] = initInput]
            /\ pwm_servo' = EnsureDriver(pwm_servo)
            /\ hwOut' = HwWrites(pwm_servo, << << c, initInput >> >>)
            /\ cres' = IF DriverFails(pwm_servo) THEN "error" ELSE "ok"
       ELSE /\ cres' = "ok"
            /\ hwOut' = << >>
            /\ UNCHANGED << initPos, pwm_servo >>
    /\ UNCHANGED << sc_direction, goalPos, nowPos, bufferPos, lastPos, ingGoal,
                    maxPos, minPos, scSpeed, scMode, scTime, goalUpdate,
                    wiggleID, wiggleDirection, flag, thrVars, cpc, carg, cmds,
                    obsVars >>
    /\ hwRelax' = HealthRelax
    /\ UNCHANGED << calib, led >>
    /\ UNCHANGED driveVars

\* _apply_shoulder_calibration(base, span) on H1_sc, the shoulder channel:
\* initConfig (against the limits in force, moving the servo when it
\* accepts), new limits, positions snapped to the target, stopWiggle; an
\* exception of set_angle is caught and ends the update (lines 190-205)
SHOULDER_SERVO_CHANNEL == 0

ClampAngle(v, lo, hi) == Max2(lo, Min2(hi, v))

ApplyShoulderCalibration(base0, span0) ==
    /\ Configuring
    /\ LET c == SHOULDER_SERVO_CHANNEL
           base == ClampAngle(base0, 0, 180)
           span == Max2(5, Min2(ClampAngle(span0, 0, 180), 180))
           lower == Max2(0, base - span)
           upper == Min2(180, base + span)
           target == Max2(lower, Min2(upper, base))
           now1 == [nowPos EXCEPT ![c] = target]
           accepted == InitAccepted(target, minPos[c], maxPos[c])
       IN  /\ initPos' = IF accepted THEN [initPos EXCEPT ![c] = target]
                         ELSE initPos
           /\ pwm_servo' = IF accepted THEN EnsureDriver(pwm_servo)
                           ELSE pwm_servo
           /\ hwOut' = IF accepted
                       THEN HwWrites(pwm_servo, << << c, target >> >>)
                       ELSE << >>
           /\ IF accepted /\ DriverFails(pwm_servo)
              THEN UNCHANGED << maxPos, minPos, goalPos, nowPos, bufferPos,
                                lastPos, seenLo, seenHi, flag, goalUpdate >>
              ELSE /\ maxPos' = [maxPos EXCEPT ![c] = upper]
                   /\ minPos' = [minPos EXCEPT ![c] = lower]
                   /\ goalPos' = [goalPos EXCEPT ![c] = target]
                   /\ nowPos' = now1
                   /\ bufferPos' = [bufferPos EXCEPT ![c] = target * 100]
                   /\ lastPos' = PosUpdate(now1)
                   /\ seenLo' = [seenLo EXCEPT ![c] = target]
                   /\ seenHi' = [seenHi EXCEPT ![c] = target]
                   /\ flag' = FALSE
                   /\ goalUpdate' = 0
    /\ UNCHANGED << sc_direction, ingGoal, scSpeed, scMode, scTime, wiggleID,
                    wiggleDirection, thrVars, callVars, autoStop, pending,
                    stopObs >>
    /\ hwRelax' = HealthRelax \cup PauseRelax
    /\ UNCHANGED driveVars

\* webServer.py line 1056: _apply_shoulder_calibration called directly with
\* the calibration read from the store, which it leaves alone
ApplyCalibration(base0, span0) ==
    /\ ApplyShoulderCalibration(base0, span0)
    /\ UNCHANGED << calib, led >>

\* ------------------------------------------------------------------------
\* Drivetrain ramp (movement.py).  Speeds are whole percent; the lock
\* _motor_lock makes each "with _motor_lock" block one step.
\* ------------------------------------------------------------------------

NumMotors == 4
Mot == 0 .. (NumMotors - 1)
\* _MOTOR_ACCEL_LIMIT, percent per second
MOTOR_ACCEL_LIMIT == 200
\* dt between two ticks as the worker measures it, in milliseconds
TickDts == {50, 100}
\* arguments of Motor(channel, direction, motor_speed)
MotorDirections == {1, -1}
MotorSpeeds == {-20, 40, 150}

ZeroVec == [m \in Mot |-> 0]

\* _clamp_speed_value
ClampSpeedValue(v) == Max2(0, Min2(100, v))

\* _signed_speed
SignedSpeed(direction, motor_speed) ==
    IF direction = -1 THEN -ClampSpeedValue(motor_speed)
    ELSE ClampSpeedValue(motor_speed)

\* a tick that always moves by max_delta, also past the target
RampNext_over(current, target, max_delta) ==
    IF target > current THEN current + max_delta
    ELSE IF target < current THEN current - max_delta
    ELSE target

\* a tick that stops short of the target instead of landing on it
RampNext_stall(current, target, max_delta) ==
    IF target > current + max_delta THEN current + max_delta
    ELSE IF target < current - max_delta THEN current - max_delta
    ELSE current

\* _drive_worker, lines 193-201: one motor's next value
RampNext(current, target, max_delta) ==
    IF target > current + max_delta THEN current + max_delta
    ELSE IF target < current - max_delta THEN current - max_delta
    ELSE target

\* _drive_worker, line 205
ClampOut(speed) == Max2(-100, Min2(100, speed))

InitDrive ==
    /\ motor_targets = ZeroVec
    /\ motor_currents = ZeroVec
    /\ hwSpeed = ZeroVec
    /\ wpc = "off"
    /\ wNext = ZeroVec
    /\ mpc = "idle"
    /\ marg = << >>
    /\ mres = "none"
    /\ drive_motion = "none"
    /\ epc = [t \in Callers |-> << >>]
    /\ wpc2 = "off"
    /\ fbMotor = [throttle |-> 0, a |-> 0, b |-> 0, pend |-> << >>]
    /\ estop = FALSE

\* _ensure_drive_worker, lines 216-224: a worker is started when none is
\* alive (none started yet, or the last one ended by an exception)
WorkerStart(w) == IF w \in {"off", "dead"} THEN "read" ELSE w

\* a Motor that stores direction * motor_speed as the target unclamped
Motor_unclamped(channel, direction, motor_speed) ==
    /\ mpc = "idle"
    /\ pwm_motor' = "bound"
    /\ wpc' = WorkerStart(wpc)
    /\ motor_targets' = [motor_targets EXCEPT ![channel - 1] =
                            direction * motor_speed]
    /\ estop' = FALSE
    /\ UNCHANGED << motor_currents, hwSpeed, wNext, mpc >>
    /\ mres' = "ok"
    /\ UNCHANGED << marg, drive_motion >>
    /\ UNCHANGED << epc, wpc2 >>
    /\ UNCHANGED fbMotor
    /\ UNCHANGED servoVars

\* a Motor that also applies the speed at once: output and current written
Motor_direct(channel, direction, motor_speed) ==
    /\ mpc = "idle"
    /\ pwm_motor' = "bound"
    /\ wpc' = WorkerStart(wpc)
    /\ LET idx == channel - 1
           v == SignedSpeed(direction, motor_speed)
       IN  IF idx < 0 \/ idx >= NumMotors
           THEN UNCHANGED << motor_targets, motor_currents, hwSpeed >>
           ELSE /\ motor_targets' = [motor_targets EXCEPT ![idx] = v]
                /\ motor_currents' = [motor_currents EXCEPT ![idx] = v]
                /\ hwSpeed' = [hwSpeed EXCEPT ![idx] = v]
    /\ estop' = FALSE
    /\ UNCHANGED << wNext, mpc >>
    /\ mres' = "ok"
    /\ UNCHANGED << marg, drive_motion >>
    /\ UNCHANGED << epc, wpc2 >>
    /\ UNCHANGED fbMotor
    /\ UNCHANGED servoVars

\* movement._ensure_driver, lines 227-262: the rich driver is bound when it
\* can be built ("none"); when it cannot ("norich") the call of line 255
\* passes address= and frequency= to a constructor whose parameters are
\* addr and freq, raises TypeError and leaves pwm_motor None
EnsureMotorDriver(p) == IF p = "none" THEN "bound" ELSE p
MotorDriverFails(p) == p = "norich"

\* _set_motor_target, lines 169-174
SetMotorTarget(targets, channel, speed) ==
    LET idx == channel - 1
    IN  IF idx < 0 \/ idx >= NumMotors THEN targets
        ELSE [targets EXCEPT ![idx] = ClampOut(speed)]

\* Motor(channel, direction, motor_speed) with the ramp enabled:
\* _ensure_driver, _ensure_drive_worker, _set_motor_target; an exception of
\* _ensure_driver ends the call before anything else happened
Motor(channel, direction, motor_speed) ==
    /\ mpc = "idle"
    /\ pwm_motor' = EnsureMotorDriver(pwm_motor)
    /\ IF MotorDriverFails(pwm_motor)
       THEN /\ mres' = "error"
            /\ UNCHANGED << wpc, motor_targets, estop >>
       ELSE /\ mres' = "ok"
            /\ wpc' = WorkerStart(wpc)
            /\ LET idx == channel - 1
               IN  motor_targets' =
                      IF idx < 0 \/ idx >= NumMotors THEN motor_targets
                      ELSE [motor_targets EXCEPT ![idx] =
                              ClampOut(SignedSpeed(direction, motor_speed))]
            /\ estop' = FALSE
    /\ UNCHANGED << motor_currents, hwSpeed, wNext, mpc >>
    /\ UNCHANGED << marg, drive_motion >>
    /\ UNCHANGED << epc, wpc2 >>
    /\ UNCHANGED fbMotor
    /\ UNCHANGED servoVars

\* speed, direction and turn of the move calls
MoveSpeeds == {40}
MoveDirections == {1, -1}
MoveTurns == {"left", "mid"}

\* move(speed, direction, turn), lines 321-333: the two Motor calls it makes,
\* as << channel, direction >> pairs; none when direction is neither 1 nor -1
MoveMotorCalls(direction, turn) ==
    IF direction = 1
    THEN IF turn = "left" THEN << << 1, -1 >>, << 2, 1 >> >>
         ELSE IF turn = "right" THEN << << 1, 1 >>, << 2, -1 >> >>
         ELSE << << 1, 1 >>, << 2, 1 >> >>
    ELSE IF direction = -1 THEN << << 1, -1 >>, << 2, -1 >> >>
    ELSE << >>

\* move with speed # 0 is called (speed = 0 is motorStop(), line 319)
Move_begin(speed, direction, turn) ==
    /\ mpc = "idle"
    /\ speed # 0
    /\ marg' = << speed, MoveMotorCalls(direction, turn) >>
    /\ mpc' = "move"
    /\ mres' = "none"
    /\ UNCHANGED << motor_targets, motor_currents, pwm_motor, hwSpeed, wpc,
                    wNext, drive_motion, estop >>
    /\ UNCHANGED << epc, wpc2 >>
    /\ UNCHANGED fbMotor
    /\ UNCHANGED servoVars

\* move: its next Motor call; an exception of Motor ends move
Move_motor ==
    /\ mpc = "move"
    /\ marg[2] # << >>
    /\ pwm_motor' = EnsureMotorDriver(pwm_motor)
    /\ IF MotorDriverFails(pwm_motor)
       THEN /\ mres' = "error"
            /\ mpc' = "idle"
            /\ marg' = << >>
            /\ UNCHANGED << wpc, motor_targets, estop >>
       ELSE /\ wpc' = WorkerStart(wpc)
            /\ motor_targets' =
                  SetMotorTarget(motor_targets, Head(marg[2])[1],
                                 SignedSpeed(Head(marg[2])[2], marg[1]))
            /\ estop' = FALSE
            /\ marg' = << marg[1], Tail(marg[2]) >>
            /\ UNCHANGED << mpc, mres >>
    /\ UNCHANGED << motor_currents, hwSpeed, wNext, drive_motion >>
    /\ UNCHANGED << epc, wpc2 >>
    /\ UNCHANGED fbMotor
    /\ UNCHANGED servoVars

\* move, line 334: _publish_motion_event(True), return
Move_publish ==
    /\ mpc = "move"
    /\ marg[2] = << >>
    /\ drive_motion' = "active"
    /\ mpc' = "idle"
    /\ marg' = << >>
    /\ mres' = "ok"
    /\ UNCHANGED << motor_targets, motor_currents, pwm_motor, hwSpeed, wpc,
                    wNext, estop >>
    /\ UNCHANGED << epc, wpc2 >>
    /\ UNCHANGED fbMotor
    /\ UNCHANGED servoVars

\* _drive_worker, lines 186-201: snapshot under the lock, next_values
Worker_read ==
    /\ wpc = "read"
    /\ \E dt \in TickDts :
         LET max_delta == (MOTOR_ACCEL_LIMIT * dt) \div 1000
         IN  wNext' = [m \in Mot |->
                         RampNext(motor_currents[m], motor_targets[m], max_delta)]
    /\ wpc' = "apply"
    /\ UNCHANGED << motor_targets, motor_currents, pwm_motor, hwSpeed, mpc,
                    estop >>
    /\ UNCHANGED << marg, mres, drive_motion >>
    /\ UNCHANGED << epc, wpc2 >>
    /\ UNCHANGED fbMotor
    /\ UNCHANGED servoVars

\* _drive_worker, lines 203-207: the values go out to the motors; a write
\* that raises (chip not answering, "broken") ends the worker thread
Worker_apply ==
    /\ wpc = "apply"
    /\ pwm_motor' = EnsureMotorDriver(pwm_motor)
    /\ IF pwm_motor = "broken"
       THEN /\ wpc' = "dead"
            /\ UNCHANGED << hwSpeed, wNext >>
       ELSE /\ hwSpeed' = [m \in Mot |-> ClampOut(wNext[m])]
            /\ wNext' = [m \in Mot |-> ClampOut(wNext[m])]
            /\ wpc' = "commit"
    /\ UNCHANGED << motor_targets, motor_currents, mpc, estop >>
    /\ UNCHANGED << marg, mres, drive_motion >>
    /\ UNCHANGED << epc, wpc2 >>
    /\ UNCHANGED fbMotor
    /\ UNCHANGED servoVars

\* _drive_worker, lines 209-213: currents stored under the lock, sleep
Worker_commit ==
    /\ wpc = "commit"
    /\ motor_currents' = wNext
    /\ wpc' = "read"
    /\ UNCHANGED << motor_targets, pwm_motor, hwSpeed, wNext, mpc, estop >>
    /\ UNCHANGED << marg, mres, drive_motion >>
    /\ UNCHANGED << epc, wpc2 >>
    /\ UNCHANGED fbMotor
    /\ UNCHANGED servoVars

\* one step of the ramp worker thread
WorkerTick ==
    \/ Worker_read
    \/ Worker_apply
    \/ Worker_commit

\* motorStop(immediate=True), lines 273-283: zero throttle on every motor
MotorStop_write ==
    /\ mpc = "idle"
    /\ pwm_motor = "bound"
    /\ hwSpeed' = ZeroVec
    /\ mpc' = "zero"
    /\ UNCHANGED << motor_targets, motor_currents, pwm_motor, wpc, wNext,
                    estop >>
    /\ UNCHANGED << marg, mres, drive_motion >>
    /\ UNCHANGED << epc, wpc2 >>
    /\ UNCHANGED fbMotor
    /\ UNCHANGED servoVars

\* motorStop(immediate=True), lines 284-289: targets and currents zeroed
\* under the lock, return
MotorStop_zero ==
    /\ mpc = "zero"
    /\ motor_targets' = ZeroVec
    /\ motor_currents' = ZeroVec
    /\ mpc' = "idle"
    /\ estop' = TRUE
    /\ UNCHANGED << pwm_motor, hwSpeed, wpc, wNext >>
    /\ drive_motion' = "inactive"
    /\ UNCHANGED << marg, mres >>
    /\ UNCHANGED << epc, wpc2 >>
    /\ UNCHANGED fbMotor
    /\ UNCHANGED servoVars

\* motorStop(immediate=False), lines 290-294: targets zeroed, the ramp
\* brings the currents down
MotorStop_ramp ==
    /\ mpc = "idle"
    /\ pwm_motor = "bound"
    /\ wpc' = WorkerStart(wpc)
    /\ motor_targets' = ZeroVec
    /\ UNCHANGED << motor_currents, pwm_motor, hwSpeed, wNext, mpc, estop >>
    /\ drive_motion' = "inactive"
    /\ UNCHANGED << marg, mres >>
    /\ UNCHANGED << epc, wpc2 >>
    /\ UNCHANGED fbMotor
    /\ UNCHANGED servoVars

\* ------------------------------------------------------------------------
\* Specifications
\* ------------------------------------------------------------------------

Init ==
    /\ InitServo /\ InitDrive /\ pwm_servo = "none" /\ pwm_motor = "none"
    /\ led = PWM_LED_CHANNEL

\* webServer applies the stored shoulder calibration to H1_sc before it
\* serves any command (webServer.py line 1056)
Calibrated == << minPos[SHOULDER_SERVO_CHANNEL], maxPos[SHOULDER_SERVO_CHANNEL] >> # << 0, 180 >>

\* Spec: the shoulder controller H1_sc as webServer drives it: calibrated,
\* then any sequence of oscillate (singleServo) and stop (stopWiggle)
Next ==
    \/ Run_wait
    \/ MoveWiggle_tick
    \/ MoveWiggle_stop
    \/ SetDirection(SHOULDER_SERVO_CHANNEL, -1)
    \/ \E cal \in Calibrations : ApplyCalibration(cal[1], cal[2])
    \/ \E d \in {-1, 1}, s \in SpeedInputs :
          Calibrated /\ SingleServo_begin(SHOULDER_SERVO_CHANNEL, d, s)
    \/ SingleServo_end
    \/ Calibrated /\ StopWiggle_begin
    \/ StopWiggle_end

Spec == Init /\ [][Next]_vars

\* ------------------------------------------------------------------------
\* Claims checked under Spec
\* ------------------------------------------------------------------------

\* C1 (as claimed): after every control tick each channel's current lies
\* within its limits: minPos <= nowPos <= maxPos.
C1_ClampingInvariant ==
    \A c \in Ch : minPos[c] <= nowPos[c] /\ nowPos[c] <= maxPos[c]

\* the limit an oscillate run of the current direction moves toward
WiggleLimit ==
    IF wiggleDirection * sc_direction[wiggleID] > 0
    THEN maxPos[wiggleID] ELSE minPos[wiggleID]

\* C2 (as claimed): an oscillate run that stops by itself at a limit leaves
\* current exactly equal to that limit.
C2_OscillateLimitStop ==
    autoStop => nowPos[wiggleID] = WiggleLimit

\* C10: stop twice in a row leaves the state (pause flag, goal, current,
\* last, accumulator) that one stop leaves, and a stop does not move
\* current: it is what it was before the stop.
C10_IdempotentStop ==
    /\ stopObs.run >= 1 => nowPos = stopObs.pre
    /\ stopObs.run = 2 => StopState = stopObs.snap

\* C10 witness: two stops in a row have returned, issued while an oscillate
\* run had moved the channel away from its goal.
C10_Witness ==
    /\ stopObs.run = 2
    /\ cpc = "idle"
    /\ nowPos[SHOULDER_SERVO_CHANNEL] # goalPos[SHOULDER_SERVO_CHANNEL]

\* ------------------------------------------------------------------------
\* SpecAuto: a controller driven by drive_timed (autoSpeed) commands on one
\* channel, issued at any moment, with scTime as constructed or set by
\* setAutoTime
\* ------------------------------------------------------------------------

NextAuto ==
    \/ Run_wait
    \/ MoveAuto_enter
    \/ MoveAuto_check
    \/ MoveAuto_calc
    \/ MoveAuto_cmp
    \/ MoveAuto_sleep
    \/ MoveAuto_fin
    \/ MoveAuto_pause
    \/ \E t \in AutoTimes : SetAutoTime(t)
    \/ \E a \in AutoAngles : AutoSpeed_begin(0, a)
    \/ AutoSpeed_end

SpecAuto == Init /\ [][NextAuto]_vars

\* C4 (as claimed): a command that has returned is not dropped: the thread
\* is never left blocked on the cleared flag while the command's regime has
\* not run since the command and no further command is being issued.
C4_CommandNotDropped ==
    ~(pending /\ cpc = "idle" /\ tpc = "wait" /\ ~flag)

\* C5 (as claimed): at pre-emption current does not jump: a tick changes a
\* channel's current by at most one interpolation step of the run in
\* progress, and the position an aborted run commits as last is a position
\* of that run toward its original goal.
C5_PreemptNoJump ==
    [][ /\ (tpc = "auto_calc" /\ tpc' = "auto_cmp") =>
             Abs(nowPos'[tdc] - nowPos[tdc])
               <= CeilDiv(Abs(ingGoal[tdc] - lastPos[tdc]), scSteps)
        /\ (tpc = "auto_cmp" /\ tpc' = "wait") =>
             \A c \in Ch : \E k \in 0 .. scSteps :
                lastPos'[c] = AutoNow(lastPos[c], ingGoal[c], k)
      ]_vars

\* C6: current never leaves the hull of the start position and the goals
\* commanded so far, so a run toward G pre-empted by a goal G' on the other
\* side never moves past G.
C6_PreemptBound ==
    \A c \in Ch : seenLo[c] <= nowPos[c] /\ nowPos[c] <= seenHi[c]

\* C6 witness: a run upward was pre-empted (moveAuto returned 1) by a goal
\* below the start position, and the new run has moved current below it.
C6_Witness ==
    /\ tret = 1
    /\ seenHi[0] > init_pwm
    /\ goalPos[0] < init_pwm
    /\ tpc = "auto_cmp"
    /\ lastPos[0] > init_pwm
    /\ nowPos[0] < init_pwm
    /\ nowPos[0] > goalPos[0]

\* C7 (as claimed): a drive_timed run goes through all its ticks: the
\* thread does not end inside it, it leaves the tick loop after scSteps
\* ticks with current == goal, and it pauses with last == goal.
C7_TimedRunCompletes ==
    /\ tpc # "dead"
    /\ tpc = "auto_fin" => ti = scSteps /\ nowPos = ingGoal
    /\ tpc = "auto_pause" => lastPos = ingGoal

\* ------------------------------------------------------------------------
\* SpecCert: a controller as constructed, channel 0 with direction -1,
\* given one drive_at_speed (certSpeed) command with a positive delta
\* ------------------------------------------------------------------------

ThreadCert ==
    \/ Run_wait
    \/ MoveCert_enter
    \/ MoveCert_while
    \/ MoveCert_body
    \/ MoveCert_end
    \/ MoveCert_pause

NextCert ==
    \/ ThreadCert
    \/ SetDirection(0, -1)
    \/ \E a \in CertAngles, s \in CertSpeeds :
          sc_direction[0] = -1 /\ cmds = 0 /\ CertSpeed_begin(0, a, s)
    \/ CertSpeed_end

\* the thread is scheduled, and a caller inside certSpeed returns from it
SpecCert ==
    Init /\ [][NextCert]_vars /\ WF_vars(ThreadCert) /\ WF_vars(CertSpeed_end)

NextCertAny ==
    \/ ThreadCert
    \/ \E a \in SmallAngles : cmds = 0 /\ MoveAngle(1, a)
    \/ \E v \in PwmInputs : cmds = 0 /\ SetPWM(1, v)
    \/ \E a \in SmallAngles, s \in CertSpeeds :
          scMode # "certain" /\ CertSpeed_begin(0, a, s)
    \/ CertSpeed_end

SpecCertAny ==
    Init /\ [][NextCertAny]_vars /\ WF_vars(ThreadCert) /\ WF_vars(CertSpeed_end)

\* C9 (as claimed): once the certSpeed command has returned, the moveCert
\* loop eventually exits with every channel's current equal to its goal and
\* the controller paused, whatever was done to the other channel before.
C9_SpeedDriveTerminates ==
    (cpc = "idle" /\ scMode = "certain")
       ~> (tpc = "wait" /\ ~flag /\ nowPos = goalPos)

\* ------------------------------------------------------------------------
\* SpecDrive: the drivetrain, its ramp worker and the callers of Motor and
\* motorStop
\* ------------------------------------------------------------------------

\* the Motor calls of SpecDrive, << channel, direction, motor_speed >>:
\* every direction and speed on motor 1, full speed ahead on motor 2, and a
\* channel that does not exist
MotorCalls ==
    {<< 1, d, s >> : d \in MotorDirections, s \in MotorSpeeds}
       \cup {<< 2, 1, 150 >>, << NumMotors + 1, 1, 40 >>}

NextDrive ==
    \/ \E call \in MotorCalls : Motor(call[1], call[2], call[3])
    \/ Worker_read
    \/ Worker_apply
    \/ Worker_commit
    \/ MotorStop_write
    \/ MotorStop_zero
    \/ MotorStop_ramp

SpecDrive == Init /\ [][NextDrive]_vars

\* C3 (as claimed): from the return of motorStop(immediate=True) until the
\* next Motor call, target and current of all four motors are 0 and the
\* value last written to every motor is 0, also when the ramp worker was in
\* the middle of a tick at the time of the call.
C3_EmergencyStop ==
    estop => /\ motor_targets = ZeroVec
             /\ motor_currents = ZeroVec
             /\ hwSpeed = ZeroVec

\* C11: in every ramp tick, with current and target as read at the start of
\* the tick and max_delta = accel_limit * dt, the value the tick computes for
\* each motor is target when |target - current| <= max_delta and otherwise
\* current moved by exactly max_delta toward target (so it lies between
\* current and target: no overshoot, no move away); that value is what the
\* tick writes to the motor and stores as the new current.
C11_RampTick ==
    [][/\ (wpc = "read" /\ wpc' = "apply") =>
             \E dt \in TickDts :
                LET max_delta == (MOTOR_ACCEL_LIMIT * dt) \div 1000
                IN  \A m \in Mot :
                      LET c == motor_currents[m]
                          t == motor_targets[m]
                          n == wNext'[m]
                      IN  /\ Abs(t - c) <= max_delta => n = t
                          /\ t - c > max_delta => n = c + max_delta
                          /\ c - t > max_delta => n = c - max_delta
                          /\ Min2(c, t) <= n /\ n <= Max2(c, t)
       /\ (wpc = "apply" /\ wpc' = "commit") =>
             (wNext' = wNext /\ hwSpeed' = wNext)
       /\ (wpc = "commit" /\ wpc' = "read") => motor_currents' = wNext
      ]_vars

\* C11 witness: a ramp from 0 toward 40 has made capped steps up to 30 and
\* the tick in progress, within max_delta of the target, lands on 40.
C11_Witness ==
    /\ wpc = "commit"
    /\ motor_targets[0] = 40
    /\ motor_currents[0] = 30
    /\ wNext[0] = 40
    /\ hwSpeed[0] = 40

\* ------------------------------------------------------------------------
\* SpecNoHw: the controller on a machine where neither the rich driver nor
\* the register-level driver can be built (every _ensure_driver raises),
\* driven by snap_to_init (moveServoInit), setPWM, drive_timed (autoSpeed),
\* drive_at_speed (certSpeed) and oscillate (singleServo)
\* ------------------------------------------------------------------------

\* the end of a moveAuto run and the stop of an oscillation at a limit lie
\* behind a set_angle: the thread does not get that far without a driver
InitNoHw ==
    /\ InitServo /\ InitDrive /\ pwm_servo = "absent" /\ pwm_motor = "none"
    /\ led = PWM_LED_CHANNEL

NextNoHw ==
    \/ Run_wait
    \/ MoveInit
    \/ MoveAuto_enter
    \/ MoveAuto_check
    \/ MoveAuto_calc
    \/ MoveAuto_cmp
    \/ MoveAuto_sleep
    \/ MoveCert_enter
    \/ MoveCert_while
    \/ MoveCert_body
    \/ MoveCert_end
    \/ MoveCert_pause
    \/ MoveWiggle_tick
    \/ cmds < MaxCmds /\ MoveServoInit(0)
    \/ \E v \in PwmInputs : cmds < MaxCmds /\ SetPWM(0, v)
    \/ \E a \in SmallAngles : cmds < MaxCmds /\ AutoSpeed_begin(0, a)
    \/ AutoSpeed_end
    \/ \E a \in SmallAngles : cmds < MaxCmds /\ CertSpeed_begin(0, a, 2)
    \/ CertSpeed_end
    \/ cmds < MaxCmds /\ SingleServo_begin(0, 1, 2)
    \/ SingleServo_end

SpecNoHw == InitNoHw /\ [][NextNoHw]_vars

\* C16 (as claimed): with no hardware driver to acquire, motion commands
\* are still accepted and neither the calling thread nor the controller's
\* loop thread is aborted by the missing hardware: no command ends in an
\* exception and the loop thread never dies.
C16_HardwareAbsent ==
    pwm_servo = "absent" => (cres # "error" /\ tpc # "dead")

\* C17 (as claimed): with no driver to acquire, every motion call fails with
\* an error delivered to its caller: none returns normally.
C17_DriverUnavailable ==
    pwm_servo = "absent" => cres # "ok"

\* ------------------------------------------------------------------------
\* SpecFallback: a machine where the rich driver cannot be built but the
\* chip answers on the bus: the servo controller driven by moveServoInit,
\* setPWM and singleServo, the drivetrain by Motor and move
\* ------------------------------------------------------------------------

InitNoRich ==
    /\ InitServo /\ InitDrive /\ pwm_servo = "norich" /\ pwm_motor = "norich"
    /\ led = PWM_LED_CHANNEL

\* the worker thread is started after _ensure_driver (lines 298 and 309) and
\* motorStop returns at once while pwm_motor is None (line 273), so neither
\* takes a step here; move does not reach its publish
NextFallback ==
    \/ Run_wait
    \/ MoveWiggle_tick
    \/ MoveWiggle_stop
    \/ cmds < MaxCmds /\ MoveServoInit(0)
    \/ \E v \in PwmInputs : cmds < MaxCmds /\ SetPWM(0, v)
    \/ \E s \in SpeedInputs : cmds < MaxCmds /\ SingleServo_begin(0, 1, s)
    \/ SingleServo_end
    \/ Motor(1, 1, 40)
    \/ \E speed \in MoveSpeeds, direction \in MoveDirections,
          turn \in MoveTurns : Move_begin(speed, direction, turn)
    \/ Move_motor

SpecFallback == InitNoRich /\ [][NextFallback]_vars

\* C18 (as claimed): when the rich driver cannot be acquired but the chip is
\* reachable through the register-level driver, acquisition ends with that
\* driver bound and motion proceeds, for the servo controller and for the
\* drivetrain alike: no call ends in an exception, the servo thread lives,
\* and after a Motor call pwm_motor is the register-level driver.
C18_DriverFallback ==
    /\ pwm_servo \in {"norich", "fallback"}
    /\ cres # "error" /\ tpc # "dead"
    /\ pwm_motor \in {"norich", "fallback"}
    /\ mres # "error"
    /\ mres = "ok" => pwm_motor = "fallback"

\* ------------------------------------------------------------------------
\* SpecCalib: calibration updates delivered to the shoulder controller one
\* after another (servo_calibration accepts base and raise in 0..180 with
\* base + raise <= 180), initConfig calls, then oscillate commands
\* ------------------------------------------------------------------------

\* << base_angle, raise_angle >> of the updates
CalibrationUpdates == { << 90, 8 >>, << 150, 10 >>, << 0, 60 >> }

\* initInput of the initConfig calls
InitInputs == {60, 82, 90, 170}

NextCalib ==
    \/ Run_wait
    \/ MoveWiggle_tick
    \/ MoveWiggle_stop
    \/ \E cal \in CalibrationUpdates : ApplyCalibration(cal[1], cal[2])
    \/ \E v \in InitInputs : InitConfig(SHOULDER_SERVO_CHANNEL, v)
    \/ \E d \in {-1, 1} :
          Calibrated /\ cmds < MaxCmds
             /\ SingleServo_begin(SHOULDER_SERVO_CHANNEL, d, 8)
    \/ SingleServo_end

SpecCalib == Init /\ [][NextCalib]_vars

\* C19 (as claimed): after any calibration update delivered through
\* _apply_shoulder_calibration, whatever the calibration before it, the
\* channel has min_limit <= init_position <= max_limit and goal and current
\* within [min_limit, max_limit].
C19_CalibrationInvariant ==
    [][(\E cal \in CalibrationUpdates : ApplyCalibration(cal[1], cal[2])) =>
          LET c == SHOULDER_SERVO_CHANNEL
          IN  /\ minPos'[c] <= initPos'[c] /\ initPos'[c] <= maxPos'[c]
              /\ minPos'[c] <= goalPos'[c] /\ goalPos'[c] <= maxPos'[c]
              /\ minPos'[c] <= nowPos'[c] /\ nowPos'[c] <= maxPos'[c]
      ]_vars

\* C20 (as claimed): initConfig accepts a new init position exactly when
\* min_limit <= init <= max_limit, both boundary values included, and
\* rejects it (init position unchanged) otherwise.
C20_AcceptanceRange ==
    [][\A v \in InitInputs :
          InitConfig(SHOULDER_SERVO_CHANNEL, v) =>
             LET c == SHOULDER_SERVO_CHANNEL
             IN  IF minPos[c] <= v /\ v <= maxPos[c]
                 THEN initPos'[c] = v
                 ELSE initPos'[c] = initPos[c]
      ]_vars

\* C21: an initConfig call that is rejected (initInput not strictly between
\* the channel's limits) leaves init position, limits, goal, current, last
\* and accumulator of every channel unchanged and writes nothing to the chip.
C21_RejectedRetains ==
    [][\A v \in InitInputs :
          LET c == SHOULDER_SERVO_CHANNEL
          IN  (InitConfig(c, v) /\ (v <= minPos[c] \/ v >= maxPos[c])) =>
                 /\ UNCHANGED << initPos, minPos, maxPos, goalPos, nowPos,
                                 lastPos, bufferPos >>
                 /\ hwOut' = << >>
      ]_vars

\* C21 witness: with the shoulder at limits 0..60 and init still 90, an
\* initConfig has returned (every value on offer is rejected there) and
\* nothing was written.
C21_Witness ==
    /\ cmds = 0 /\ cres = "ok"
    /\ minPos[SHOULDER_SERVO_CHANNEL] = 0 /\ maxPos[SHOULDER_SERVO_CHANNEL] = 60
    /\ initPos[SHOULDER_SERVO_CHANNEL] = 90
    /\ nowPos[SHOULDER_SERVO_CHANNEL] = 0
    /\ hwOut = << >>

\* ------------------------------------------------------------------------
\* SpecInit: a controller whose init positions are configured with
\* initConfig, moved with setPWM and oscillate, and snapped back with
\* moveServoInit and moveInit
\* ------------------------------------------------------------------------

\* initInput of the initConfig calls of SpecInit
SnapInits == {60, 120}

NextInit ==
    \/ Run_wait
    \/ MoveWiggle_tick
    \/ MoveWiggle_stop
    \/ \E c \in Ch, v \in SnapInits : cmds = 0 /\ InitConfig(c, v)
    \/ \E v \in PwmInputs : cmds < MaxCmds /\ SetPWM(0, v)
    \/ cmds < MaxCmds /\ SingleServo_begin(0, 1, 80)
    \/ SingleServo_end
    \/ \E c \in Ch : cmds < MaxCmds /\ MoveServoInit(c)
    \/ cmds < MaxCmds /\ MoveInit_call

SpecInit == Init /\ [][NextInit]_vars

\* the position writes to channel c among the writes out
WritesTo(out, c) == Cardinality({k \in 1 .. Len(out) : out[k][1] = c})

\* what moveServoInit([c]) / moveInit leaves for channel c
SnappedToInit(c) ==
    /\ goalPos'[c] = initPos'[c]
    /\ nowPos'[c] = initPos'[c]
    /\ lastPos'[c] = initPos'[c]
    /\ bufferPos'[c] = initPos'[c] * 100
    /\ WritesTo(hwOut', c) = 1
    /\ \E k \in 1 .. Len(hwOut') : hwOut'[k] = << c, initPos'[c] >>

C25_InputErrors ==
    [][\A v \in InitInputs :
          LET c == SHOULDER_SERVO_CHANNEL
          IN  (InitConfig(c, v) /\ (v < minPos[c] \/ v > maxPos[c])) =>
                 cres' = "error"
      ]_vars

\* ------------------------------------------------------------------------
\* SpecBus: the shoulder oscillating while the chip stops answering on the
\* I2C bus and answers again.  Of the controller's operations only those
\* appear whose behaviour on a failing write is modelled.
\* ------------------------------------------------------------------------

\* the chip stops answering: every write of the bound driver raises
ServoBusFail ==
    /\ pwm_servo \in {"bound", "fallback"}
    /\ pwm_servo' = "broken"
    /\ UNCHANGED << scFields, hwOut, hwRelax, calib, led, thrVars, callVars,
                    obsVars >>
    /\ UNCHANGED driveVars

\* the chip answers again
ServoBusRecover ==
    /\ pwm_servo = "broken"
    /\ pwm_servo' = "bound"
    /\ UNCHANGED << scFields, hwOut, hwRelax, calib, led, thrVars, callVars,
                    obsVars >>
    /\ UNCHANGED driveVars

NextBus ==
    \/ Run_wait
    \/ MoveWiggle_tick
    \/ MoveWiggle_stop
    \/ \E d \in {-1, 1} : cmds < MaxCmds /\ SingleServo_begin(0, d, 80)
    \/ SingleServo_end
    \/ ServoBusFail
    \/ ServoBusRecover

SpecBus == Init /\ [][NextBus]_vars

\* C28 (as claimed): when a hardware write fails during a control tick, the
\* controller's loop thread stays alive.
C28_WriteFailureSurvived ==
    tpc # "dead"

\* ------------------------------------------------------------------------
\* SpecDriveBus: the drivetrain ramping while the chip stops answering and
\* answers again; Motor and motorStop(immediate=False) touch no hardware
\* ------------------------------------------------------------------------

MotorBusFail ==
    /\ pwm_motor = "bound"
    /\ pwm_motor' = "broken"
    /\ UNCHANGED << motor_targets, motor_currents, hwSpeed, wpc, wNext, mpc,
                    marg, mres, drive_motion, estop >>
    /\ UNCHANGED << epc, wpc2 >>
    /\ UNCHANGED fbMotor
    /\ UNCHANGED servoVars

MotorBusRecover ==
    /\ pwm_motor = "broken"
    /\ pwm_motor' = "bound"
    /\ UNCHANGED << motor_targets, motor_currents, hwSpeed, wpc, wNext, mpc,
                    marg, mres, drive_motion, estop >>
    /\ UNCHANGED << epc, wpc2 >>
    /\ UNCHANGED fbMotor
    /\ UNCHANGED servoVars

NextDriveBus ==
    \/ \E direction \in MotorDirections : Motor(1, direction, 40)
    \/ WorkerTick
    \/ MotorBusFail
    \/ MotorBusRecover

SpecDriveBus == Init /\ [][NextDriveBus]_vars

\* C24 (as claimed): while the hardware driver is unavailable the ramp loop
\* keeps running: the worker thread is not ended by the failing write.
C24_RampSurvives ==
    wpc # "dead"

\* ------------------------------------------------------------------------
\* SpecWrites: the calibrated shoulder moved by setPWM, moveAngle,
\* moveServoInit and oscillate; hwOut shows what each step sends to the chip
\* ------------------------------------------------------------------------

\* PWM_input of the setPWM calls of SpecWrites
PwmWrites == {85, 150}

NextWrites ==
    \/ Run_wait
    \/ MoveWiggle_tick
    \/ MoveWiggle_stop
    \/ \E cal \in Calibrations : ApplyCalibration(cal[1], cal[2])
    \/ \E v \in PwmWrites : Calibrated /\ cmds < MaxCmds /\ SetPWM(0, v)
    \/ \E a \in SmallAngles : Calibrated /\ cmds < MaxCmds /\ MoveAngle(0, a)
    \/ Calibrated /\ cmds < MaxCmds /\ MoveServoInit(0)
    \/ \E d \in {-1, 1} : Calibrated /\ cmds < MaxCmds /\ SingleServo_begin(0, d, 8)
    \/ SingleServo_end

SpecWrites == Init /\ [][NextWrites]_vars

\* C29 (as claimed): every position value sent to the chip for a channel,
\* by any operation, lies within that channel's [min_limit, max_limit].
C29_WritesClamped ==
    \A k \in 1 .. Len(hwOut) :
       /\ minPos[hwOut[k][1]] <= hwOut[k][2]
       /\ hwOut[k][2] <= maxPos[hwOut[k][1]]

\* ------------------------------------------------------------------------
\* SpecRestart: one client thread that issues a command only while the
\* controller is at rest (thread blocked in __flag.wait(), no call under
\* way), so every oscillation starts after a completed operation
\* ------------------------------------------------------------------------

\* run() is blocked on the cleared flag and no command is executing
AtRest == tpc = "wait" /\ ~flag /\ cpc = "idle"

NextRestart ==
    \/ Run_wait
    \/ MoveWiggle_tick
    \/ MoveWiggle_stop
    \/ \E cal \in Calibrations : ApplyCalibration(cal[1], cal[2])
    \/ \E v \in PwmWrites : Calibrated /\ AtRest /\ cmds < MaxCmds /\ SetPWM(0, v)
    \/ \E a \in SmallAngles : Calibrated /\ AtRest /\ cmds < MaxCmds /\ MoveAngle(0, a)
    \/ Calibrated /\ AtRest /\ cmds < MaxCmds /\ MoveServoInit(0)
    \/ \E d \in {-1, 1} : Calibrated /\ AtRest /\ cmds < MaxCmds /\ SingleServo_begin(0, d, 8)
    \/ SingleServo_end

SpecRestart == Init /\ [][NextRestart]_vars

\* C30 (as claimed): the first tick of a motion started after a completed
\* operation changes the channel's current by at most one tick's step (the
\* step of the accumulator, plus the half unit of rounding) from the value
\* current had when the command was issued.
C30_StartsFromCurrent ==
    [][ MoveWiggle_tick =>
          Abs(nowPos'[wiggleID] - nowPos[wiggleID]) * 100
            <= TickStep(scSpeed[wiggleID]) + 50 ]_vars


\* ------------------------------------------------------------------------
\* SpecWorkers: two threads call setup, Motor and motorStop at the same
\* time; _ensure_drive_worker is split between its check (line 220) and the
\* start of the thread (lines 222-224), which no lock holds together
\* ------------------------------------------------------------------------

\* _ensure_drive_worker, line 220: _motor_thread and _motor_thread.is_alive()
WorkerAlive == (wpc # "off" /\ wpc # "dead") \/ wpc2 = "run"

\* setup() by thread t, lines 266-269, up to the check of
\* _ensure_drive_worker; it returns there when a worker is alive
Setup_check(t) ==
    /\ epc[t] = << >>
    /\ ~MotorDriverFails(pwm_motor)
    /\ pwm_motor' = EnsureMotorDriver(pwm_motor)
    /\ epc' = IF WorkerAlive THEN epc ELSE [epc EXCEPT ![t] = << "setup" >>]
    /\ UNCHANGED << motor_targets, motor_currents, hwSpeed, wpc, wNext, mpc,
                    marg, mres, drive_motion, wpc2, estop >>
    /\ UNCHANGED fbMotor
    /\ UNCHANGED servoVars

\* Motor(channel, direction, motor_speed) by thread t, lines 298-309, up to
\* the check of _ensure_drive_worker; with a worker alive the call goes on to
\* _set_motor_target and returns
Motor_check(t, channel, direction, motor_speed) ==
    /\ epc[t] = << >>
    /\ ~MotorDriverFails(pwm_motor)
    /\ pwm_motor' = EnsureMotorDriver(pwm_motor)
    /\ IF WorkerAlive
       THEN /\ motor_targets' = SetMotorTarget(motor_targets, channel,
                                               SignedSpeed(direction, motor_speed))
            /\ mres' = "ok"
            /\ estop' = FALSE
            /\ UNCHANGED epc
       ELSE /\ epc' = [epc EXCEPT ![t] =
                         << "Motor", channel, SignedSpeed(direction, motor_speed) >>]
            /\ UNCHANGED << motor_targets, mres, estop >>
    /\ UNCHANGED << motor_currents, hwSpeed, wpc, wNext, mpc, marg,
                    drive_motion, wpc2 >>
    /\ UNCHANGED fbMotor
    /\ UNCHANGED servoVars

\* motorStop(immediate=False) by thread t, lines 273 and 290, up to the
\* check of _ensure_drive_worker; with a worker alive the call zeroes the
\* targets, publishes and returns
MotorStop_check(t) ==
    /\ epc[t] = << >>
    /\ pwm_motor = "bound"
    /\ IF WorkerAlive
       THEN /\ motor_targets' = ZeroVec
            /\ drive_motion' = "inactive"
            /\ UNCHANGED epc
       ELSE /\ epc' = [epc EXCEPT ![t] = << "motorStop" >>]
            /\ UNCHANGED << motor_targets, drive_motion >>
    /\ UNCHANGED << motor_currents, pwm_motor, hwSpeed, wpc, wNext, mpc, marg,
                    mres, wpc2, estop >>
    /\ UNCHANGED fbMotor
    /\ UNCHANGED servoVars

\* _ensure_drive_worker, lines 222-224, by a thread that found no worker
\* alive at line 220: a new thread is created and started whatever has been
\* started since the check; then the rest of the call of thread t
EnsureWorker_start(t) ==
    /\ epc[t] # << >>
    /\ wpc' = WorkerStart(wpc)
    /\ wpc2' = IF wpc = "off" \/ wpc = "dead" THEN wpc2 ELSE "run"
    /\ motor_targets' =
          CASE epc[t][1] = "Motor" ->
                 SetMotorTarget(motor_targets, epc[t][2], epc[t][3])
            [] epc[t][1] = "motorStop" -> ZeroVec
            [] OTHER -> motor_targets
    /\ mres' = IF epc[t][1] = "Motor" THEN "ok" ELSE mres
    /\ estop' = IF epc[t][1] = "Motor" THEN FALSE ELSE estop
    /\ drive_motion' = IF epc[t][1] = "motorStop" THEN "inactive" ELSE drive_motion
    /\ epc' = [epc EXCEPT ![t] = << >>]
    /\ UNCHANGED << motor_currents, pwm_motor, hwSpeed, wNext, mpc, marg >>
    /\ UNCHANGED fbMotor
    /\ UNCHANGED servoVars

\* one iteration of the loop of a second _drive_worker thread, lines 178-213
Worker2_tick ==
    /\ wpc2 = "run"
    /\ pwm_motor = "bound"
    /\ \E dt \in TickDts :
         LET max_delta == (MOTOR_ACCEL_LIMIT * dt) \div 1000
             next_values == [m \in Mot |->
                 ClampOut(RampNext(motor_currents[m], motor_targets[m], max_delta))]
         IN  /\ hwSpeed' = next_values
             /\ motor_currents' = next_values
    /\ UNCHANGED << motor_targets, pwm_motor, wpc, wNext, mpc, marg, mres,
                    drive_motion, epc, wpc2, estop >>
    /\ UNCHANGED fbMotor
    /\ UNCHANGED servoVars

\* the Motor calls of the two threads, as << channel, direction, motor_speed >>
WorkerCalls == {<< 1, 1, 40 >>, << 2, -1, 40 >>}

NextWorkers ==
    \/ \E t \in Callers : Setup_check(t)
    \/ \E t \in Callers, call \in WorkerCalls :
          Motor_check(t, call[1], call[2], call[3])
    \/ \E t \in Callers : MotorStop_check(t)
    \/ \E t \in Callers : EnsureWorker_start(t)
    \/ WorkerTick
    \/ Worker2_tick

SpecWorkers == Init /\ [][NextWorkers]_vars

\* _drive_worker threads alive
AliveWorkers ==
    (IF wpc # "off" /\ wpc # "dead" THEN 1 ELSE 0)
      + (IF wpc2 = "run" THEN 1 ELSE 0)

\* C23 (as claimed): at most one drivetrain ramp worker thread is alive at
\* any time, whatever threads call setup, Motor and motorStop concurrently.
C23_SingleRampThread == AliveWorkers <= 1


\* ------------------------------------------------------------------------
\* SpecTick: the oscillation tick taken statement by statement, as the
\* thread runs it with no lock, while the client thread issues setPWM,
\* moveServoInit and singleServo
\* ------------------------------------------------------------------------

\* moveWiggle, lines 368-373: the accumulator is stepped, newNow is taken
\* from it, the accumulator is limited
MoveWiggle_calc ==
    /\ tpc = "wig_tick"
    /\ LET w == wiggleID
           raw == WiggleRaw(bufferPos[w], wiggleDirection, sc_direction[w], scSpeed[w])
       IN  /\ tNewNow' = WiggleNewNow(raw, minPos[w], maxPos[w])
           /\ bufferPos' = [bufferPos EXCEPT ![w] = WiggleBuf(raw, minPos[w], maxPos[w])]
    /\ tpc' = "wig_write"
    /\ stopObs' = StopNone
    /\ UNCHANGED << sc_direction, initPos, goalPos, nowPos, lastPos, ingGoal,
                    maxPos, minPos, scSpeed, scMode, scTime, goalUpdate,
                    wiggleID, wiggleDirection, flag, ti, tdc, tret, callVars,
                    autoStop, pending, seenLo, seenHi >>
    /\ UNCHANGED pwm_servo
    /\ hwOut' = << >>
    /\ hwRelax' = HealthRelax
    /\ UNCHANGED << calib, led >>
    /\ UNCHANGED driveVars

\* moveWiggle, lines 374-380: newNow stored in nowPos and lastPos, then the
\* write to the chip or stopWiggle, by what the accumulator holds now
MoveWiggle_write ==
    /\ tpc = "wig_write"
    /\ LET w == wiggleID
           inside == bufferPos[w] < maxPos[w] * 100 /\ bufferPos[w] > minPos[w] * 100
       IN  /\ nowPos' = [nowPos EXCEPT ![w] = tNewNow]
           /\ lastPos' = [lastPos EXCEPT ![w] = tNewNow]
           /\ pwm_servo' = IF inside THEN EnsureDriver(pwm_servo) ELSE pwm_servo
           /\ hwOut' = IF inside THEN HwWrites(pwm_servo, << << w, tNewNow >> >>)
                       ELSE << >>
           /\ tpc' = IF ~inside THEN "wig_stop"
                     ELSE IF DriverFails(pwm_servo) \/ DelaySleepArg < 0
                          THEN "dead" ELSE "wait"
           /\ autoStop' = IF inside THEN autoStop ELSE TRUE
    /\ pending' = IF scMode = "wiggle" THEN FALSE ELSE pending
    /\ stopObs' = StopNone
    /\ UNCHANGED << sc_direction, initPos, goalPos, bufferPos, ingGoal, maxPos,
                    minPos, scSpeed, scMode, scTime, goalUpdate, wiggleID,
                    wiggleDirection, flag, ti, tdc, tret, tNewNow, callVars,
                    seenLo, seenHi >>
    /\ hwRelax' = HealthRelax
    /\ UNCHANGED << calib, led >>
    /\ UNCHANGED driveVars

NextTick ==
    \/ Run_wait
    \/ MoveWiggle_calc
    \/ MoveWiggle_write
    \/ MoveWiggle_stop
    \/ \E cal \in Calibrations : ApplyCalibration(cal[1], cal[2])
    \/ \E v \in PwmWrites : Calibrated /\ cmds < MaxCmds /\ SetPWM(0, v)
    \/ Calibrated /\ cmds < MaxCmds /\ MoveServoInit(0)
    \/ \E d \in {-1, 1} : Calibrated /\ cmds < MaxCmds /\ SingleServo_begin(0, d, 8)
    \/ SingleServo_end

SpecTick == Init /\ [][NextTick]_vars

\* C27 (as claimed): a tick never overwrites values written by a command
\* that completed during that tick: when setPWM or moveServoInit has written
\* the oscillating channel (hwOut holds its write) while the tick was between
\* taking newNow and storing it, the tick's store leaves current and last of
\* that channel as the command set them.
C27_TickKeepsCommand ==
    [][ (tpc = "wig_write" /\ tpc' # "wig_write"
           /\ hwOut # << >> /\ hwOut[Len(hwOut)][1] = wiggleID)
        => (nowPos'[wiggleID] = nowPos[wiggleID]
              /\ lastPos'[wiggleID] = lastPos[wiggleID]) ]_vars


\* ------------------------------------------------------------------------
\* Releases and channel ownership of the hardware writes
\* ------------------------------------------------------------------------

\* C31 (as claimed): when a stop (stopWiggle, by the thread at a limit or by
\* the client) releases electrical hold, zero output is written only to the
\* channel the controller was driving.
C31_StopReleasesOwn ==
    [][ (MoveWiggle_stop \/ StopWiggle_begin) => hwRelax' \subseteq {wiggleID} ]_vars


\* the types of the events handed to event_bus.publish so far by the code
\* modelled here: movement.py publishes drive_motion (line 397); RPIservo.py
\* holds no reference to the event bus and no publish call
Published == IF drive_motion = "none" THEN {} ELSE {"drive_motion"}

\* C32 (as claimed): when an oscillate run has stopped by itself at
\* min_limit or max_limit (the thread has run stopWiggle), a telemetry event
\* has been published through the event-publish hook.
C32_LimitTelemetry ==
    (autoStop /\ tpc # "wig_stop") => Published # {}


\* ------------------------------------------------------------------------
\* SpecHome: the shoulder controller H1_sc driven by oscillate, stop and
\* the 'home' command of webServer
\* ------------------------------------------------------------------------

\* robotCtrl, 'home' (webServer.py lines 838-846), as H1_sc sees it:
\* H1_sc.moveServoInit(0) is called with an int, so moveServoInit sets
\* scMode (RPIservo.py line 252) and raises TypeError at len(ID) (line 253);
\* the calls for H2_sc, P_sc, G_sc and T_sc are not reached, and
\* _process_hardware_command (lines 927-943) logs the exception
Home ==
    /\ cpc = "idle"
    /\ scMode' = "init"
    /\ cres' = "error"
    /\ cmds' = Min2(cmds + 1, MaxCmds)
    /\ stopObs' = StopNone
    /\ UNCHANGED << sc_direction, initPos, goalPos, nowPos, bufferPos, lastPos,
                    ingGoal, maxPos, minPos, scSpeed, scTime, goalUpdate,
                    wiggleID, wiggleDirection, flag, thrVars, cpc, carg,
                    autoStop, pending, seenLo, seenHi >>
    /\ UNCHANGED pwm_servo
    /\ hwOut' = << >>
    /\ hwRelax' = HealthRelax
    /\ UNCHANGED << calib, led >>
    /\ UNCHANGED driveVars

NextHome ==
    \/ Run_wait
    \/ MoveInit
    \/ MoveWiggle_tick
    \/ MoveWiggle_stop
    \/ \E cal \in Calibrations : ApplyCalibration(cal[1], cal[2])
    \/ \E d \in {-1, 1} : Calibrated /\ cmds < MaxCmds /\ SingleServo_begin(0, d, 8)
    \/ SingleServo_end
    \/ Calibrated /\ cmds < MaxCmds /\ StopWiggle_begin
    \/ StopWiggle_end
    \/ Calibrated /\ cmds < MaxCmds /\ Home

SpecHome == Init /\ [][NextHome]_vars

\* C33 (as claimed): when the 'home' command has been processed, current
\* equals the init position on the shoulder channel of H1_sc and the
\* controller is paused.
C33_HomeSnaps ==
    [][ Home => (nowPos'[SHOULDER_SERVO_CHANNEL] = initPos'[SHOULDER_SERVO_CHANNEL]
                   /\ ~flag') ]_vars


\* ------------------------------------------------------------------------
\* SpecBridge: one _FallbackDCMotor given a sequence of throttle values; the
\* setter is taken one set_pwm call at a time
\* ------------------------------------------------------------------------

\* the values assigned to throttle, in percent of full scale
ThrottleValues == {10 * k - 100 : k \in 0 .. 20}

\* throttle.setter, line 115: int(round(abs(value) * 4095))
ThrottleDuty(value) == RoundHalfEven(Abs(value) * 4095, 100)

\* throttle.setter, lines 110-124, up to its first set_pwm call: channel_a
\* gets 0 when the duty is 0 or the value negative, the duty otherwise
Throttle_first(value) ==
    /\ fbMotor.pend = << >>
    /\ LET v == Max2(-100, Min2(100, value))
           duty == ThrottleDuty(v)
       IN  fbMotor' = [throttle |-> v,
                       a |-> IF duty > 0 /\ v > 0 THEN duty ELSE 0,
                       b |-> fbMotor.b,
                       pend |-> << IF duty > 0 /\ v < 0 THEN duty ELSE 0 >>]
    /\ UNCHANGED << motor_targets, motor_currents, pwm_motor, hwSpeed, wpc,
                    wNext, mpc, marg, mres, drive_motion, epc, wpc2, estop >>
    /\ UNCHANGED servoVars

\* throttle.setter: the second set_pwm call, to channel_b
Throttle_second ==
    /\ fbMotor.pend # << >>
    /\ fbMotor' = [fbMotor EXCEPT !.b = fbMotor.pend[1], !.pend = << >>]
    /\ UNCHANGED << motor_targets, motor_currents, pwm_motor, hwSpeed, wpc,
                    wNext, mpc, marg, mres, drive_motion, epc, wpc2, estop >>
    /\ UNCHANGED servoVars

NextBridge ==
    \/ \E value \in ThrottleValues : Throttle_first(value)
    \/ Throttle_second

SpecBridge == Init /\ [][NextBridge]_vars

\* C34 (as claimed): at no moment are both H-bridge input channels of the
\* motor at a non-zero duty, the moment between the two channel writes of a
\* throttle update included.
C34_BridgeExclusive == ~(fbMotor.a > 0 /\ fbMotor.b > 0)


\* ------------------------------------------------------------------------
\* SpecOwn: a controller fresh from construction (no driver bound yet, as
\* P_sc, T_sc, H1_sc, H2_sc and G_sc of webServer.py are) that is only ever
\* told to oscillate one of its channels and to stop
\* ------------------------------------------------------------------------

NextOwn ==
    \/ Run_wait
    \/ MoveWiggle_tick
    \/ MoveWiggle_stop
    \/ \E c \in Ch, d \in {-1, 1} : cmds < MaxCmds /\ SingleServo_begin(c, d, 80)
    \/ SingleServo_end
    \/ cmds < MaxCmds /\ StopWiggle_begin
    \/ StopWiggle_end

SpecOwn == Init /\ [][NextOwn]_vars

\* C35 (as claimed): from the call oscillate(c) until the run stops, every
\* position write of the controller goes to channel c, also when the command
\* is the first one after construction.
C35_OscillateOwnChannel ==
    \A k \in 1 .. Len(hwOut) : hwOut[k][1] = wiggleID


\* ------------------------------------------------------------------------
\* SpecCertFrame: channel 1 is moved by oscillate and stopped, then
\* certSpeed is given channel 0 alone
\* ------------------------------------------------------------------------

NextCertFrame ==
    \/ ThreadCert
    \/ MoveWiggle_tick
    \/ MoveWiggle_stop
    \/ \E d \in {-1, 1} : scMode # "certain" /\ cmds < MaxCmds
                            /\ SingleServo_begin(1, d, 80)
    \/ SingleServo_end
    \/ scMode = "wiggle" /\ cmds < MaxCmds /\ StopWiggle_begin
    \/ StopWiggle_end
    \/ \E a \in SmallAngles : scMode # "certain" /\ CertSpeed_begin(0, a, 80)
    \/ CertSpeed_end

SpecCertFrame == Init /\ [][NextCertFrame]_vars

\* C36 (as claimed): a certSpeed command that names channel 0 alone leaves
\* the current of channel 1 as it was: no step of the moveCert run changes it,
\* whatever moved channel 1 earlier.
C36_SpeedDriveFrame ==
    [][ (MoveCert_enter \/ MoveCert_while \/ MoveCert_body \/ MoveCert_end
           \/ MoveCert_pause)
        => nowPos'[1] = nowPos[1] ]_vars


\* ------------------------------------------------------------------------
\* SpecEvents: move on one thread (the command handler) while motorStop
\* runs on another (the tracking thread of camera.py), each statement by
\* statement; drive_motion is the active flag of the event published last
\* (the ramp worker is left out: it writes neither targets nor events)
\* ------------------------------------------------------------------------

\* motorStop(immediate=False) by thread t, lines 273 and 290-293:
\* _ensure_drive_worker, then the targets zeroed under the lock
MotorStop_targets(t) ==
    /\ epc[t] = << >>
    /\ pwm_motor = "bound"
    /\ wpc' = WorkerStart(wpc)
    /\ motor_targets' = ZeroVec
    /\ epc' = [epc EXCEPT ![t] = << "stop_publish" >>]
    /\ UNCHANGED << motor_currents, pwm_motor, hwSpeed, wNext, mpc, marg, mres,
                    drive_motion, wpc2, fbMotor, estop >>
    /\ UNCHANGED servoVars

\* motorStop, line 294: _publish_motion_event(False), return
MotorStop_publish(t) ==
    /\ epc[t] = << "stop_publish" >>
    /\ drive_motion' = "inactive"
    /\ epc' = [epc EXCEPT ![t] = << >>]
    /\ UNCHANGED << motor_targets, motor_currents, pwm_motor, hwSpeed, wpc,
                    wNext, mpc, marg, mres, wpc2, fbMotor, estop >>
    /\ UNCHANGED servoVars

NextEvents ==
    \/ \E speed \in MoveSpeeds, direction \in MoveDirections,
          turn \in MoveTurns : Move_begin(speed, direction, turn)
    \/ Move_motor
    \/ Move_publish
    \/ MotorStop_targets(2)
    \/ MotorStop_publish(2)

SpecEvents == Init /\ [][NextEvents]_vars

\* C37 (as claimed): once move and motorStop have both returned, the active
\* flag of the last drive_motion event published agrees with whether any
\* motor target is non-zero.
C37_EventOrder ==
    (mpc = "idle" /\ epc[2] = << >> /\ drive_motion # "none")
       => (drive_motion = "active" <=> \E m \in Mot : motor_targets[m] # 0)


\* ------------------------------------------------------------------------
\* SpecCalStore: update_shoulder_calibration called by two threads; the
\* store is written under _LOCK, the observer is called after the lock is
\* released
\* ------------------------------------------------------------------------

\* the << base_angle, raise_angle >> of the update calls
CalInputs == {<< 90, 8 >>, << 150, 10 >>, << 100, 90 >>, << 200, 10 >>}

\* update_shoulder_calibration, lines 92-96: _clamp_angle raises outside
\* 0..180, and the sum may not exceed 180
CalRejected(base, raise_val) ==
    \/ base < 0 \/ base > 180
    \/ raise_val < 0 \/ raise_val > 180
    \/ base + raise_val > 180

\* update_shoulder_calibration by thread t, lines 92-103: validation, then
\* under _LOCK the store is written and the snapshot taken
UpdateCalibration_store(t, base, raise_val) ==
    /\ calib.pend[t] = << >>
    /\ calib' = IF CalRejected(base, raise_val)
                THEN [calib EXCEPT !.res = "error"]
                ELSE [calib EXCEPT !.store = << base, raise_val >>,
                                   !.pend[t] = << base, raise_val >>,
                                   !.res = "none"]
    /\ UNCHANGED << scFields, pwm_servo, hwOut, hwRelax, led, thrVars, callVars,
                    obsVars >>
    /\ UNCHANGED driveVars

\* update_shoulder_calibration, lines 105-106: _notify_shoulder hands the
\* snapshot to the observer webServer registered (line 1055), which is
\* _apply_shoulder_calibration; return
UpdateCalibration_notify(t) ==
    /\ calib.pend[t] # << >>
    /\ ApplyShoulderCalibration(calib.pend[t][1], calib.pend[t][2])
    /\ UNCHANGED led
    /\ calib' = [calib EXCEPT !.seen = calib.pend[t], !.pend[t] = << >>,
                              !.res = "ok"]

NextCalStore ==
    \/ \E t \in Callers, cal \in CalInputs :
          UpdateCalibration_store(t, cal[1], cal[2])
    \/ \E t \in Callers : UpdateCalibration_notify(t)

SpecCalStore == Init /\ [][NextCalStore]_vars

\* C38 (as claimed): once every update_shoulder_calibration call has
\* completed, the snapshot most recently delivered to the observer equals
\* the calibration held in the store.
C38_ObserverConverges ==
    ((\A t \in Callers : calib.pend[t] = << >>) /\ calib.seen # << >>)
       => calib.seen = calib.store


\* ------------------------------------------------------------------------
\* SpecLed: a controller fresh from construction, with either driver still
\* to be bound and PWM_LED_CHANNEL set to a channel of the controller or
\* left at its default, told to oscillate a channel, to stop, and to set a
\* channel outright
\* ------------------------------------------------------------------------

\* values of PWM_LED_CHANNEL: the shoulder channel, another channel of the
\* controller, the default
LedChannels == {0, 1, PWM_LED_CHANNEL}

InitLed ==
    /\ InitServo /\ InitDrive /\ pwm_motor = "none"
    /\ pwm_servo \in {"none", "norich"}
    /\ led \in LedChannels

NextLed ==
    \/ Run_wait
    \/ MoveWiggle_tick
    \/ MoveWiggle_stop
    \/ \E c \in Ch, d \in {-1, 1} : cmds < MaxCmds /\ SingleServo_begin(c, d, 80)
    \/ SingleServo_end
    \/ cmds < MaxCmds /\ StopWiggle_begin
    \/ StopWiggle_end
    \/ \E c \in Ch, v \in PwmInputs : cmds < MaxCmds /\ SetPWM(c, v)
    \/ \E c \in Ch, v \in PwmInputs : cmds < MaxCmds /\ SetPWM_led(c, v)

SpecLed == InitLed /\ [][NextLed]_vars

\* C39 (as claimed): whatever channel PWM_LED_CHANNEL names, no step of the
\* controller sends a position to that channel or sets its output to zero.
C39_LedNeverDriven ==
    /\ \A k \in 1 .. Len(hwOut) : hwOut[k][1] # led
    /\ led \notin hwRelax


\* ------------------------------------------------------------------------
\* SpecTelemetry: the drivetrain commanded through move, Motor and motorStop
\* with the ramp worker running; drive_motion is the active flag of the last
\* drive_motion event published
\* ------------------------------------------------------------------------

NextTelemetry ==
    \/ \E speed \in MoveSpeeds, direction \in MoveDirections,
          turn \in MoveTurns : Move_begin(speed, direction, turn)
    \/ Move_motor
    \/ Move_publish
    \/ Motor(1, 1, 40)
    \/ WorkerTick
    \/ MotorStop_write
    \/ MotorStop_zero
    \/ MotorStop_ramp

SpecTelemetry == Init /\ [][NextTelemetry]_vars

\* C15 (as claimed): whichever operation takes the drivetrain between "all
\* four motors zero" and "some motor non-zero", a drive_motion event with
\* the new state as its active flag is published: once the operation has
\* returned, the commanded speeds are non-zero exactly when the last event
\* published says active.
C15_DriveTelemetry ==
    mpc = "idle" =>
       ((motor_targets # ZeroVec) <=> (drive_motion = "active"))

\* C26 (as claimed): a ramp tick never works from a target vector in which
\* a move has been applied to one motor and not yet to the other: the worker
\* takes no snapshot between the two Motor calls of a move.
C26_LockstepTargets ==
    [][Worker_read => ~(mpc = "move" /\ Len(marg[2]) = 1)]_vars

\* ------------------------------------------------------------------------
\* SpecRamp: motor 1 commanded through Motor and motorStop, the ramp worker
\* scheduled fairly
\* ------------------------------------------------------------------------

NextRamp ==
    \/ \E direction \in MotorDirections, motor_speed \in MotorSpeeds :
          Motor(1, direction, motor_speed)
    \/ WorkerTick
    \/ MotorStop_write
    \/ MotorStop_zero
    \/ MotorStop_ramp

\* the worker thread loops for as long as the process lives
SpecRamp == Init /\ [][NextRamp]_vars /\ WF_vars(WorkerTick)

\* the targets Motor can set on a motor
TargetValues == {-100, -40, 0, 40, 100}

\* C12: if from some point on a motor's target stays at v, then from some
\* point on that motor's current equals v and stays equal; in particular,
\* once the targets stay all 0 (motorStop), every current ends at 0.
C12_RampConverges ==
    /\ \A v \in TargetValues :
          <>[](motor_targets[0] = v) => <>[](motor_currents[0] = v)
    /\ <>[](motor_targets = ZeroVec) => <>[](motor_currents = ZeroVec)

\* C12 witness: after motorStop(immediate=False) the ramp is on its way
\* down: target 0, current still 20, the tick in progress lands on 0.
C12_Witness ==
    /\ ~estop
    /\ motor_targets[0] = 0
    /\ motor_currents[0] = 20
    /\ wpc = "apply"
    /\ wNext[0] = 0

\* C13: in every reachable state the target and the current of each of the
\* four motors lie in [-100, 100], and so does every speed computed for and
\* handed to the hardware output, whatever speeds the commands carry
\* (150 and -20 are among the inputs).
C13_DrivetrainBounds ==
    \A m \in Mot :
       /\ -100 <= motor_targets[m] /\ motor_targets[m] <= 100
       /\ -100 <= motor_currents[m] /\ motor_currents[m] <= 100
       /\ -100 <= hwSpeed[m] /\ hwSpeed[m] <= 100
       /\ -100 <= wNext[m] /\ wNext[m] <= 100

\* C13 witness: a command with speed 150 was limited to 100 and the ramp has
\* brought motor 1 to -100 while motor 2 is held at +100.
C13_Witness ==
    /\ motor_targets[0] = -100
    /\ motor_currents[0] = -100
    /\ hwSpeed[0] = -100
    /\ motor_targets[1] = 100

\* C14: a Motor(channel, direction, speed) call changes no motor's current,
\* writes no speed to the hardware and leaves the targets of the motors it
\* does not address as they were.
C14_SetTargetOnly ==
    [][\A call \in MotorCalls :
          Motor(call[1], call[2], call[3]) =>
             /\ motor_currents' = motor_currents
             /\ hwSpeed' = hwSpeed
             /\ \A m \in Mot :
                   m # call[1] - 1 => motor_targets'[m] = motor_targets[m]
      ]_vars

\* C14 witness: with motor 2 running at 100, Motor(1, 1, 40) has set the
\* target of motor 1 while its current and output are still 0.
C14_Witness ==
    /\ motor_targets[0] = 40
    /\ motor_currents[0] = 0
    /\ hwSpeed[0] = 0
    /\ motor_targets[1] = 100
    /\ motor_currents[1] = 100
    /\ hwSpeed[1] = 100

====
